---- MODULE Spec2Model ----
(***************************************************************************)
(* Fault-tolerance primitives, per-item stage workers and the staged run   *)
(* of the synthetic data pipeline: utils/resilience.py (CircuitBreaker,    *)
(* retry_with_backoff) and src/orchestrator/workflows.py.                  *)
(*                                                                         *)
(* Eleven specifications share the pure operators below:                   *)
(*   SpecBreaker  one CircuitBreaker driven by concurrent callers of       *)
(*                call_async and by callers of the blocking call           *)
(*   SpecRetry    one callable wrapped by retry_with_backoff               *)
(*   SpecWorker   the retry-wrapped per-item workers sharing the global    *)
(*                breaker of their collaborator class                      *)
(*   SpecJoin     the result loop of a batched stage over one joined group *)
(*   SpecPipeline one run of generate_synthetic_data through its stages    *)
(*   SpecPipelineFair  such a run under an event loop that runs what is    *)
(*                ready and collaborators that always answer               *)
(*   SpecLookup   such a run with the history of the ground-truth lookups  *)
(*                of stage 4                                               *)
(*   SpecStore    such a run with the history of the store attempts of     *)
(*                stage 5                                                  *)
(*   SpecLimit    such a run started with a max_questions argument         *)
(*   SpecProgress one PipelineProgress under any sequence of update and    *)
(*                add_error calls                                          *)
(*   SpecPending  process_pending_questions: the query for the pending     *)
(*                questions, the run it delegates to and what that run     *)
(*                writes to the questions table                            *)
(***************************************************************************)
EXTENDS Integers, Sequences, FiniteSets, TLC

VARIABLES
    cb,         \* the CircuitBreaker instance (its attributes)
    now,        \* time.time()
    pc,         \* per caller: "idle", inside "call" or "call_async", "returned", "raised"
    funcOut,    \* per caller: what the wrapped function did in the current call
    outcome,    \* per caller: what call / call_async gave back to the caller
    probe,      \* per caller: its call in flight moved the breaker OPEN -> HALF_OPEN
    consec,     \* completed admitted calls that failed in a row (capped)
    rt,         \* one activation of a retry_with_backoff wrapper
    stage,      \* the collaborator class of the workers ("research", ...)
    worker,     \* per worker: one activation of a per-item worker
    run,        \* one activation of generate_synthetic_data (its locals)
    progress,   \* the PipelineProgress of the run
    tasks,      \* per input item of the current stage: its worker task
    cbs,        \* the four global breakers, by collaborator class
    agg,        \* one result loop of a batched stage over a joined group
    pend        \* one activation of process_pending_questions and the stored questions

breakerVars == <<cb, now, pc, funcOut, outcome, probe, consec>>
retryVars == <<rt>>
workerVars == <<stage, worker>>
pipelineVars == <<run, progress, tasks, cbs>>
joinVars == <<agg>>
pendingVars == <<pend>>

vars == <<breakerVars, retryVars, workerVars, pipelineVars, joinVars, pendingVars>>

(***************************************************************************)
(* Bounds of the model                                                     *)
(***************************************************************************)
NumCallers == 2
MaxThreshold == 3
MaxTimeout == 2
MaxTime == 5
MaxAttempts == 3
MaxInitialDelay == 2
MaxBase == 3
SmallMaxDelay == 3
NumWorkers == 2
MaxGroup == 3
MaxQuestions == 3
MaxBatchSize == 2
MaxItemId == 2
MaxPending == 2

Callers == 1..NumCallers

(***************************************************************************)
(* Values                                                                  *)
(***************************************************************************)
CLOSED == "closed"
OPEN == "open"
HALF_OPEN == "half_open"
CircuitState == {CLOSED, OPEN, HALF_OPEN}

\* last_failure_time before any failure (Python None; falsy like 0.0)
NoFailureTime == 0

CircuitBreakerOpenError == "CircuitBreakerOpenError"

\* Exception classes a wrapped function may raise, and the class test of
\* an except clause: KeyboardInterrupt derives from BaseException only.
FuncExceptions == {"ValueError", "KeyboardInterrupt"}
IsInstance(e, cls) ==
    IF cls = "Exception"
    THEN e \in {"TimeoutError", "ValueError", CircuitBreakerOpenError}
    ELSE e = cls

FuncResults == {"r1", "r2"}

Returned(v) == [kind |-> "return", val |-> v]
Raised(e) == [kind |-> "raise", val |-> e]
NoOutcome == [kind |-> "none", val |-> "none"]

Min(a, b) == IF a <= b THEN a ELSE b

(***************************************************************************)
(* CircuitBreaker                                                          *)
(***************************************************************************)
NewCircuitBreaker(threshold, timeout, expected) ==
    [failure_threshold |-> threshold,
     recovery_timeout |-> timeout,
     expected_exception |-> expected,
     failure_count |-> 0,
     last_failure_time |-> NoFailureTime,
     state |-> CLOSED]

\* CheckState without the rejection of calls while the circuit is OPEN
CheckState_AlwaysAdmits(b, t) ==
    IF b.state = OPEN
    THEN [admitted |-> TRUE,
          cb |-> [b EXCEPT !.state = HALF_OPEN, !.failure_count = 0]]
    ELSE [admitted |-> TRUE, cb |-> b]

\* "Check circuit state": the admission test at the head of call and call_async.
CheckState(b, t) ==
    IF b.state = OPEN
    THEN IF b.last_failure_time # NoFailureTime
            /\ (t - b.last_failure_time) >= b.recovery_timeout
         THEN [admitted |-> TRUE,
               cb |-> [b EXCEPT !.state = HALF_OPEN, !.failure_count = 0]]
         ELSE [admitted |-> FALSE, cb |-> b]
    ELSE [admitted |-> TRUE, cb |-> b]

\* OnSuccess closing the circuit from any state, the counter kept
OnSuccess_AlwaysCloses(b) == [b EXCEPT !.state = CLOSED]

\* "Success - reset circuit if half-open"
OnSuccess(b) ==
    IF b.state = HALF_OPEN
    THEN [b EXCEPT !.state = CLOSED, !.failure_count = 0]
    ELSE b

\* OnFailure without `self.last_failure_time = time.time()`
OnFailure_NoTimestamp(b, t) ==
    LET counted == [b EXCEPT !.failure_count = @ + 1]
    IN  IF counted.failure_count >= counted.failure_threshold
        THEN [counted EXCEPT !.state = OPEN]
        ELSE counted

\* "Failure - increment counter", "Open circuit if threshold reached"
OnFailure(b, t) ==
    LET counted == [b EXCEPT !.failure_count = @ + 1, !.last_failure_time = t]
    IN  IF counted.failure_count >= counted.failure_threshold
        THEN [counted EXCEPT !.state = OPEN]
        ELSE counted

\* The try/except around the wrapped function: the breaker after the function
\* produced `out`, and what the caller of call / call_async gets.
AfterFunc(b, t, out) ==
    IF out.kind = "return"
    THEN [cb |-> OnSuccess(b), outcome |-> out]
    ELSE IF IsInstance(out.val, b.expected_exception)
         THEN [cb |-> OnFailure(b, t), outcome |-> Raised(out.val)]
         ELSE [cb |-> b, outcome |-> out]

(***************************************************************************)
(* Callers of one breaker. call blocks the event loop, so nothing else     *)
(* runs between its admission test and its completion; call_async yields   *)
(* at the await of the wrapped function.                                   *)
(***************************************************************************)
Running(c) == pc[c] \in {"call", "call_async"}

Blocked(c) == \E d \in Callers \ {c} : pc[d] = "call"

\* Begin with the admission test inside the try block, so that the
\* CircuitBreakerOpenError of a rejection is counted like a failure
Begin_RejectionCounted(c, m) ==
    /\ ~Running(c)
    /\ ~Blocked(c)
    /\ LET adm == CheckState(cb, now)
       IN  /\ cb' = IF adm.admitted THEN adm.cb ELSE OnFailure(adm.cb, now)
           /\ funcOut' = [funcOut EXCEPT ![c] = NoOutcome]
           /\ probe' = [probe EXCEPT ![c] = (cb.state = OPEN /\ adm.admitted)]
           /\ IF adm.admitted
              THEN /\ pc' = [pc EXCEPT ![c] = m]
                   /\ outcome' = [outcome EXCEPT ![c] = NoOutcome]
              ELSE /\ pc' = [pc EXCEPT ![c] = "raised"]
                   /\ outcome' = [outcome EXCEPT ![c] = Raised(CircuitBreakerOpenError)]
    /\ UNCHANGED <<now, consec, retryVars, workerVars, pipelineVars, joinVars, pendingVars>>

\* The head of call / call_async: the admission test, before the try block.
Begin(c, m) ==
    /\ ~Running(c)
    /\ ~Blocked(c)
    /\ LET adm == CheckState(cb, now)
       IN  /\ cb' = adm.cb
           /\ funcOut' = [funcOut EXCEPT ![c] = NoOutcome]
           /\ probe' = [probe EXCEPT ![c] = (cb.state = OPEN /\ adm.admitted)]
           /\ IF adm.admitted
              THEN /\ pc' = [pc EXCEPT ![c] = m]
                   /\ outcome' = [outcome EXCEPT ![c] = NoOutcome]
              ELSE /\ pc' = [pc EXCEPT ![c] = "raised"]
                   /\ outcome' = [outcome EXCEPT ![c] = Raised(CircuitBreakerOpenError)]
    /\ UNCHANGED <<now, consec, retryVars, workerVars, pipelineVars, joinVars, pendingVars>>

call_async(c) == Begin(c, "call_async")

call(c) == Begin(c, "call")

FuncDone(c, out) ==
    /\ Running(c)
    /\ ~Blocked(c)
    /\ LET after == AfterFunc(cb, now, out)
       IN  /\ cb' = after.cb
           /\ outcome' = [outcome EXCEPT ![c] = after.outcome]
           /\ pc' = [pc EXCEPT ![c] = IF after.outcome.kind = "return"
                                      THEN "returned" ELSE "raised"]
    /\ funcOut' = [funcOut EXCEPT ![c] = out]
    /\ probe' = [probe EXCEPT ![c] = FALSE]
    /\ consec' = IF out.kind = "return" THEN 0
                 ELSE IF IsInstance(out.val, cb.expected_exception)
                      THEN Min(consec + 1, cb.failure_threshold)
                      ELSE consec
    /\ UNCHANGED <<now, retryVars, workerVars, pipelineVars, joinVars, pendingVars>>

FuncReturns(c) == \E v \in FuncResults : FuncDone(c, Returned(v))

FuncRaises(c) == \E e \in FuncExceptions : FuncDone(c, Raised(e))

Tick ==
    /\ now < MaxTime
    /\ now' = now + 1
    /\ UNCHANGED <<cb, pc, funcOut, outcome, probe, consec, retryVars, workerVars, pipelineVars, joinVars, pendingVars>>

\* The parts of the state a specification does not use.
NoRetry == rt = [pc |-> "unused"]
NoWorkers == stage = "none" /\ worker = <<>>
NoBreaker == cb = [state |-> "unused"] /\ now = 0
NoCallers ==
    /\ pc = <<>> /\ funcOut = <<>> /\ outcome = <<>> /\ probe = <<>>
    /\ consec = 0
NoPipeline ==
    /\ run = [pc |-> "unused"] /\ progress = [total |-> 0]
    /\ tasks = <<>> /\ cbs = <<>>
NoJoin == agg = [stage |-> "unused"]
NoPending == pend = [pc |-> "unused"]

InitBreaker ==
    /\ NoRetry /\ NoWorkers /\ NoPipeline /\ NoJoin /\ NoPending
    /\ cb \in {NewCircuitBreaker(th, to, "Exception") :
                 th \in 1..MaxThreshold, to \in 1..MaxTimeout}
    /\ now = 1
    /\ pc = [c \in Callers |-> "idle"]
    /\ funcOut = [c \in Callers |-> NoOutcome]
    /\ outcome = [c \in Callers |-> NoOutcome]
    /\ probe = [c \in Callers |-> FALSE]
    /\ consec = 0

NextBreaker ==
    \/ \E c \in Callers : call_async(c)
    \/ \E c \in Callers : call(c)
    \/ \E c \in Callers : FuncReturns(c)
    \/ \E c \in Callers : FuncRaises(c)
    \/ Tick

SpecBreaker == InitBreaker /\ [][NextBreaker]_vars

(***************************************************************************)
(* retry_with_backoff: async_wrapper and sync_wrapper run the same loop    *)
(* (they differ in asyncio.sleep / time.sleep only).                       *)
(***************************************************************************)
RECURSIVE Pow(_, _)
Pow(b, n) == IF n = 0 THEN 1 ELSE b * Pow(b, n - 1)

\* except retry_on as e: the error's class is one of the tuple's classes
Caught(e, retry_on) == \E cls \in retry_on : IsInstance(e.cls, cls)

\* BackoffDelay with the exponent counted from 1
BackoffDelay_ExponentFromOne(cfg, attempt) ==
    Min(cfg.initial_delay * Pow(cfg.exponential_base, attempt + 1), cfg.max_delay)

\* "Calculate delay with exponential backoff"
BackoffDelay(cfg, attempt) ==
    Min(cfg.initial_delay * Pow(cfg.exponential_base, attempt), cfg.max_delay)

\* RetryOnError with a bare `except Exception`-like clause that ignores retry_on
RetryOnError_CatchAll(cfg, attempt, e) ==
    IF attempt = cfg.max_attempts - 1
    THEN [do |-> "raise", delay |-> 0]
    ELSE [do |-> "sleep", delay |-> BackoffDelay(cfg, attempt)]

\* The except clause of the loop body, for the error e of iteration `attempt`:
\* propagate an error retry_on does not name, re-raise on the last attempt,
\* sleep otherwise.
RetryOnError(cfg, attempt, e) ==
    IF ~Caught(e, cfg.retry_on)
    THEN [do |-> "raise", delay |-> 0]
    ELSE IF attempt = cfg.max_attempts - 1
         THEN [do |-> "raise", delay |-> 0]
         ELSE [do |-> "sleep", delay |-> BackoffDelay(cfg, attempt)]

NewRetry(cfg) ==
    [cfg |-> cfg,
     pc |-> "loop",
     attempt |-> 0,
     calls |-> 0,
     delays |-> <<>>,
     errors |-> <<>>,
     last_exception |-> NoOutcome,
     out |-> NoOutcome]

\* The wrapped callable returned v in iteration r.attempt: return it.
RetryAfterReturn(r, v) ==
    [r EXCEPT !.calls = @ + 1, !.pc = "returned", !.out = Returned(v)]

\* The wrapped callable raised e in iteration r.attempt.
RetryAfterRaise(r, e) ==
    LET h == RetryOnError(r.cfg, r.attempt, e)
        called == [r EXCEPT !.calls = @ + 1, !.errors = Append(@, e)]
    IN  IF h.do = "sleep"
        THEN [called EXCEPT !.last_exception = Raised(e), !.pc = "sleep",
                            !.delays = Append(@, h.delay)]
        ELSE [called EXCEPT !.last_exception =
                                IF Caught(e, r.cfg.retry_on) THEN Raised(e) ELSE @,
                            !.pc = "raised", !.out = Raised(e)]

\* The sleep is over (and the retry is logged): next iteration of the loop.
RetryAfterSleep(r) == [r EXCEPT !.attempt = @ + 1, !.pc = "loop"]

\* range(max_attempts) is exhausted: "Should not reach here, but just in case"
RetryAfterLoop(r) ==
    IF r.last_exception # NoOutcome
    THEN [r EXCEPT !.pc = "raised", !.out = r.last_exception]
    ELSE [r EXCEPT !.pc = "returned", !.out = Returned("None")]

RetryFuncExceptions == {"TimeoutError", "ValueError", "KeyboardInterrupt"}
RetryOnChoices == {{"Exception"}, {"TimeoutError"}}

\* The error raised by the n-th invocation of the callable.
Error(cls, n) == [cls |-> cls, id |-> n]

FuncCallReturns ==
    /\ rt.pc = "loop" /\ rt.attempt < rt.cfg.max_attempts
    /\ \E v \in FuncResults : rt' = RetryAfterReturn(rt, v)
    /\ UNCHANGED <<breakerVars, workerVars, pipelineVars, joinVars, pendingVars>>

FuncCallRaises ==
    /\ rt.pc = "loop" /\ rt.attempt < rt.cfg.max_attempts
    /\ \E cls \in RetryFuncExceptions :
           rt' = RetryAfterRaise(rt, Error(cls, rt.calls + 1))
    /\ UNCHANGED <<breakerVars, workerVars, pipelineVars, joinVars, pendingVars>>

SleepDone ==
    /\ rt.pc = "sleep"
    /\ rt' = RetryAfterSleep(rt)
    /\ UNCHANGED <<breakerVars, workerVars, pipelineVars, joinVars, pendingVars>>

LoopExhausted ==
    /\ rt.pc = "loop" /\ rt.attempt >= rt.cfg.max_attempts
    /\ rt' = RetryAfterLoop(rt)
    /\ UNCHANGED <<breakerVars, workerVars, pipelineVars, joinVars, pendingVars>>

DefaultMaxDelay == 10

RetryConfigs ==
    [max_attempts : 0..MaxAttempts,
     initial_delay : 1..MaxInitialDelay,
     max_delay : {SmallMaxDelay, DefaultMaxDelay},
     exponential_base : 1..MaxBase,
     retry_on : RetryOnChoices]

InitRetry ==
    /\ NoBreaker /\ NoCallers /\ NoWorkers /\ NoPipeline /\ NoJoin /\ NoPending
    /\ rt \in {NewRetry(cfg) : cfg \in RetryConfigs}

NextRetry ==
    \/ FuncCallReturns
    \/ FuncCallRaises
    \/ SleepDone
    \/ LoopExhausted

SpecRetry == InitRetry /\ [][NextRetry]_vars

(***************************************************************************)
(* Per-item workers: _research_single_question, _generate_single_data and  *)
(* _review_single_data. Each is retry_with_backoff(3, 2.0, 10.0, 2.0,      *)
(* (Exception,)) around a body that runs its collaborator through the      *)
(* global breaker of its class inside try / except.                        *)
(***************************************************************************)
WorkerMaxAttempts == 3
WorkerInitialDelay == 2
WorkerMaxDelay == 10
WorkerExponentialBase == 2
GlobalFailureThreshold == 5
GlobalRecoveryTimeout == 60

Workers == 1..NumWorkers
Stages == {"research", "generation", "review"}

WorkerRetryConfig ==
    [max_attempts |-> WorkerMaxAttempts,
     initial_delay |-> WorkerInitialDelay,
     max_delay |-> WorkerMaxDelay,
     exponential_base |-> WorkerExponentialBase,
     retry_on |-> {"Exception"}]

\* research_circuit_breaker, generation_circuit_breaker, review_circuit_breaker
GlobalCircuitBreaker ==
    NewCircuitBreaker(GlobalFailureThreshold, GlobalRecoveryTimeout, "Exception")

SuccessResult(id) == [status |-> "success", question_id |-> id, error |-> "none"]
ErrorResult(id, msg) == [status |-> "error", question_id |-> id, error |-> msg]

\* str(e), and the f-string of the CircuitBreakerOpenError clause
Message(e) == IF e = CircuitBreakerOpenError THEN "Circuit breaker open" ELSE e

\* What _do_research / _do_generate / _do_review can do for item id: return a
\* success result, return an error result without raising (research and
\* generation: the question is not found; research: the update fails), or raise.
CollaboratorExceptions == {"ValueError", "TimeoutError"}
CollaboratorReturnValues(st, id) ==
    {SuccessResult(id)}
    \cup (IF st \in {"research", "generation"}
          THEN {ErrorResult(id, "Failed to retrieve question")} ELSE {})
    \cup (IF st = "research" THEN {ErrorResult(id, "Database update failed")} ELSE {})

\* WorkerBodyOutcome without the `except Exception` clause
WorkerBodyOutcome_OnlyBreakerError(id, callOutcome) ==
    IF callOutcome.kind = "return"
    THEN callOutcome
    ELSE IF callOutcome.val = CircuitBreakerOpenError
         THEN Returned(ErrorResult(id, Message(callOutcome.val)))
         ELSE callOutcome

\* The try / except of the worker body around `return await breaker.call_async(...)`.
WorkerBodyOutcome(id, callOutcome) ==
    IF callOutcome.kind = "return"
    THEN callOutcome
    ELSE IF callOutcome.val = CircuitBreakerOpenError
         THEN Returned(ErrorResult(id, Message(callOutcome.val)))
         ELSE IF IsInstance(callOutcome.val, "Exception")
              THEN Returned(ErrorResult(id, Message(callOutcome.val)))
              ELSE callOutcome

\* The retry wrapper's loop body given what the worker body did.
WrapperHandle(r, bodyOutcome) ==
    IF bodyOutcome.kind = "return"
    THEN RetryAfterReturn(r, bodyOutcome.val)
    ELSE RetryAfterRaise(r, Error(bodyOutcome.val, r.calls + 1))

IdleWorker ==
    [item |-> 0, rt |-> [pc |-> "idle"], awaiting |-> FALSE,
     funcOut |-> NoOutcome, caught |-> "none"]

NewWorker(id) ==
    [item |-> id, rt |-> NewRetry(WorkerRetryConfig), awaiting |-> FALSE,
     funcOut |-> NoOutcome, caught |-> "none"]

Finished(k) == k.rt.pc \in {"idle", "returned", "raised"}

\* The stage starts the worker of one item.
WorkerStart(w) ==
    /\ Finished(worker[w])
    /\ \E id \in 1..MaxItemId : worker' = [worker EXCEPT ![w] = NewWorker(id)]
    /\ UNCHANGED <<breakerVars, retryVars, stage, pipelineVars, joinVars, pendingVars>>

\* One iteration of the wrapper's loop starts (after the sleep of the previous
\* one, if any): the body enters call_async, which admits or rejects the call.
WorkerAttempt(w) ==
    LET k == worker[w]
        r == IF k.rt.pc = "sleep" THEN RetryAfterSleep(k.rt) ELSE k.rt
        adm == CheckState(cb, now)
    IN  /\ k.rt.pc \in {"loop", "sleep"}
        /\ ~k.awaiting
        /\ r.attempt < r.cfg.max_attempts
        /\ cb' = adm.cb
        /\ worker' = [worker EXCEPT ![w] =
              IF adm.admitted
              THEN [k EXCEPT !.rt = r, !.awaiting = TRUE, !.funcOut = NoOutcome,
                             !.caught = "none"]
              ELSE [k EXCEPT !.rt = WrapperHandle(r,
                                 WorkerBodyOutcome(k.item, Raised(CircuitBreakerOpenError))),
                             !.funcOut = NoOutcome,
                             !.caught = CircuitBreakerOpenError]]
        /\ UNCHANGED <<now, pc, funcOut, outcome, probe, consec, retryVars, stage, pipelineVars, joinVars, pendingVars>>

\* The collaborator call of worker w ends with `out`.
CollaboratorDone(w, out) ==
    LET k == worker[w]
        after == AfterFunc(cb, now, out)
    IN  /\ k.awaiting
        /\ cb' = after.cb
        /\ worker' = [worker EXCEPT ![w] =
              [k EXCEPT !.rt = WrapperHandle(k.rt, WorkerBodyOutcome(k.item, after.outcome)),
                        !.awaiting = FALSE,
                        !.funcOut = out,
                        !.caught = IF after.outcome.kind = "raise"
                                   THEN after.outcome.val ELSE "none"]]
        /\ UNCHANGED <<now, pc, funcOut, outcome, probe, consec, retryVars, stage, pipelineVars, joinVars, pendingVars>>

CollaboratorReturns(w) ==
    \E v \in CollaboratorReturnValues(stage, worker[w].item) :
        CollaboratorDone(w, Returned(v))

CollaboratorRaises(w) ==
    \E e \in CollaboratorExceptions : CollaboratorDone(w, Raised(e))

\* Time passes between two steps of the workers: a whole recovery_timeout
\* (shorter pauses change nothing the breaker can see but the timestamps).
Elapse ==
    /\ now < MaxTime
    /\ now' = now + cb.recovery_timeout
    /\ UNCHANGED <<cb, pc, funcOut, outcome, probe, consec, retryVars, workerVars, pipelineVars, joinVars, pendingVars>>

InitWorker ==
    /\ NoCallers /\ NoRetry /\ NoPipeline /\ NoJoin /\ NoPending
    /\ cb = GlobalCircuitBreaker
    /\ now = 1
    /\ stage \in Stages
    /\ worker = [w \in Workers |-> IdleWorker]

NextWorker ==
    \/ \E w \in Workers : WorkerStart(w)
    \/ \E w \in Workers : WorkerAttempt(w)
    \/ \E w \in Workers : CollaboratorReturns(w)
    \/ \E w \in Workers : CollaboratorRaises(w)
    \/ Elapse

SpecWorker == InitWorker /\ [][NextWorker]_vars

(***************************************************************************)
(* PipelineProgress and the batched stages of                              *)
(* src/orchestrator/workflows.py: stage_2_research_questions,              *)
(* stage_3_generate_data, stage_4_review_data.                             *)
(***************************************************************************)
StageCounters ==
    {"questions_added", "researched", "generated", "reviewed", "approved", "failed"}

\* PipelineProgress.__init__
PipelineProgress(total_questions) ==
    [total |-> total_questions,
     stages |-> [s \in StageCounters |-> 0],
     errors |-> <<>>]

\* update with `-=` for `+=`
update_Subtracts(p, st, count) ==
    IF st \in DOMAIN p.stages THEN [p EXCEPT !.stages[st] = @ - count] ELSE p

\* PipelineProgress.update
update(p, st, count) ==
    IF st \in DOMAIN p.stages THEN [p EXCEPT !.stages[st] = @ + count] ELSE p

\* add_error without `self.errors.append({...})`
add_error_CountOnly(p, question_id, st, error) ==
    update(p, "failed", 1)

\* PipelineProgress.add_error (the timestamp of the entry is left out)
add_error(p, question_id, st, error) ==
    update([p EXCEPT !.errors =
                Append(@, [question_id |-> question_id, stage |-> st, error |-> error])],
           "failed", 1)

\* get_summary reporting the failed counter as the number of errors
get_summary_ErrorsFromCounter(p) ==
    [total |-> p.total,
     stages |-> p.stages,
     errors |-> p.stages["failed"],
     completion_percentage |->
         IF p.total > 0 THEN (p.stages["approved"] * 100) \div p.total ELSE 0]

\* PipelineProgress.get_summary (the percentage is rounded down)
get_summary(p) ==
    [total |-> p.total,
     stages |-> p.stages,
     errors |-> Len(p.errors),
     completion_percentage |->
         IF p.total > 0 THEN (p.stages["approved"] * 100) \div p.total ELSE 0]

\* Batch with the slice items[i:i+batch_size+1]
Batch_OneTooMany(items, i, batch_size) ==
    SubSeq(items, i + 1, Min(i + batch_size + 1, Len(items)))

\* items[i:i+batch_size]
Batch(items, i, batch_size) ==
    SubSeq(items, i + 1, Min(i + batch_size, Len(items)))

\* CounterOf with the review stage advancing the approved counter
CounterOf_ReviewCountsApproved(st) ==
    CASE st = "research" -> "researched"
      [] st = "generation" -> "generated"
      [] st = "review" -> "approved"

\* NextOffset with a step of batch_size - 1, at least 1
NextOffset_GroupsOverlap(i, batch_size) ==
    i + (IF batch_size > 1 THEN batch_size - 1 ELSE 1)

\* The step of range(0, len(items), batch_size)
NextOffset(i, batch_size) == i + batch_size

\* The counter a batched stage advances, and the stage name of its error entries.
CounterOf(st) ==
    CASE st = "research" -> "researched"
      [] st = "generation" -> "generated"
      [] st = "review" -> "reviewed"

ReviewVerdicts == {"approved", "needs_revision", "rejected"}

\* The data of a generated item: _do_generate sets generated_data['question_id'].
GeneratedData(id) == [question_id |-> id]

\* The success result of _do_review: the data and the review.
ReviewResult(id, verdict) ==
    [status |-> "success", question_id |-> id, error |-> "none",
     review_status |-> verdict]

\* isinstance(result, Exception) for an entry of gather(..., return_exceptions=True)
IsExceptionObject(result) ==
    result.kind = "raise" /\ IsInstance(result.val, "Exception")

\* should_store without the `auto_approve and` of the second disjunct
should_store_NeedsRevisionAlways(review_status, auto_approve) ==
    \/ review_status = "approved"
    \/ review_status = "needs_revision"

\* stage_4_review_data: should_store
should_store(review_status, auto_approve) ==
    \/ review_status = "approved"
    \/ (auto_approve /\ review_status = "needs_revision")

\* What a stage appends to its output list for a success result.
StageOutput(st, d, auto_approve) ==
    CASE st = "research" -> <<d.question_id>>
      [] st = "generation" -> <<GeneratedData(d.question_id)>>
      [] st = "review" ->
            IF should_store(d.review_status, auto_approve)
            THEN <<[question_id |-> d.question_id, review_status |-> d.review_status]>>
            ELSE <<>>

\* ProcessResult with the counter of the stage advanced by the size of the
\* whole input list at the first success only (an update once per stage)
ProcessResult_CountedPerStage(st, acc, result, auto_approve) ==
    IF IsExceptionObject(result)
    THEN acc
    ELSE LET d == result.val
         IN  IF d.status = "success"
             THEN [out |-> acc.out \o StageOutput(st, d, auto_approve),
                   progress |-> IF acc.progress.stages[CounterOf(st)] = 0
                                THEN update(acc.progress, CounterOf(st),
                                            acc.progress.total)
                                ELSE acc.progress]
             ELSE [out |-> acc.out,
                   progress |-> add_error(acc.progress, d.question_id, st, d.error)]

\* The body of `for result in batch_results` of a batched stage; acc is the
\* stage's output list so far and the PipelineProgress.
ProcessResult(st, acc, result, auto_approve) ==
    IF IsExceptionObject(result)
    THEN acc
    ELSE LET d == result.val
         IN  IF d.status = "success"
             THEN [out |-> acc.out \o StageOutput(st, d, auto_approve),
                   progress |-> update(acc.progress, CounterOf(st), 1)]
             ELSE [out |-> acc.out,
                   progress |-> add_error(acc.progress, d.question_id, st, d.error)]

\* The whole result loop over the results of one group.
RECURSIVE ProcessResults(_, _, _, _)
ProcessResults(st, acc, results, auto_approve) ==
    IF results = <<>>
    THEN acc
    ELSE ProcessResults(st, ProcessResult(st, acc, Head(results), auto_approve),
                        Tail(results), auto_approve)

(***************************************************************************)
(* The result loop of one group on whatever asyncio.gather(...,            *)
(* return_exceptions=True) can hand back: per task its result, or the      *)
(* exception object of a task that raised.                                 *)
(***************************************************************************)
\* What a worker returns for item id on success.
WorkerSuccessResults(st, id) ==
    IF st = "review"
    THEN {ReviewResult(id, v) : v \in ReviewVerdicts}
    ELSE {SuccessResult(id)}

JoinEntries(st, id) ==
    {Returned(v) : v \in WorkerSuccessResults(st, id)}
    \cup {Returned(ErrorResult(id, Message(e))) : e \in {"ValueError"}}
    \cup {Raised(e) : e \in {"ValueError"}}

InitJoin ==
    /\ NoBreaker /\ NoCallers /\ NoRetry /\ NoWorkers /\ NoPipeline /\ NoPending
    /\ \E st \in Stages, auto \in BOOLEAN, n \in 1..MaxGroup :
         \E rs \in [1..n -> UNION {JoinEntries(st, id) : id \in 1..n}] :
            /\ \A k \in 1..n : rs[k] \in JoinEntries(st, k)
            /\ agg = [stage |-> st, auto_approve |-> auto, batch_results |-> rs,
                      k |-> 0, out |-> <<>>, progress |-> PipelineProgress(n)]

\* One iteration of `for result in batch_results`.
ResultLoopStep ==
    LET acc == ProcessResult(agg.stage, [out |-> agg.out, progress |-> agg.progress],
                             agg.batch_results[agg.k + 1], agg.auto_approve)
    IN  /\ agg.stage \in Stages
        /\ agg.k < Len(agg.batch_results)
        /\ agg' = [agg EXCEPT !.k = @ + 1, !.out = acc.out, !.progress = acc.progress]
        /\ UNCHANGED <<breakerVars, retryVars, workerVars, pipelineVars, pendingVars>>

NextJoin == ResultLoopStep

SpecJoin == InitJoin /\ [][NextJoin]_vars

(***************************************************************************)
(* generate_synthetic_data: one run of the five stages. The batched stages *)
(* start the workers of one group, await asyncio.gather over them, run the *)
(* result loop, and go on to the next group.                               *)
(***************************************************************************)
DatabaseFailureThreshold == 3
DatabaseRecoveryTimeout == 30

BatchedStages == {"stage_2", "stage_3", "stage_4"}

\* The collaborator class of a batched stage.
ClassOf(stagePc) ==
    CASE stagePc = "stage_2" -> "research"
      [] stagePc = "stage_3" -> "generation"
      [] stagePc = "stage_4" -> "review"

BreakerClasses == Stages \cup {"database"}

\* research_, generation_, review_ and database_circuit_breaker
GlobalBreakers ==
    [c \in BreakerClasses |->
        IF c = "database"
        THEN NewCircuitBreaker(DatabaseFailureThreshold, DatabaseRecoveryTimeout,
                               "Exception")
        ELSE GlobalCircuitBreaker]

\* The breakers live as long as the process: earlier runs may have left one
\* of them a failure short of opening.
FailuresLeftBy(earlier, c) ==
    IF c = earlier
    THEN [GlobalBreakers[c] EXCEPT
            !.failure_count = GlobalBreakers[c].failure_threshold - 1,
            !.last_failure_time = 1]
    ELSE GlobalBreakers[c]

\* TrainingType(training_type.lower()) raises ValueError for an unknown name.
TrainingTypeNames == {"sft", "no_such_type"}
IsTrainingType(name) == name = "sft"

\* What the collaborator call of a worker can do for item id: return the
\* success result, return an error result (research and generation: the
\* question is not found), or raise.
CollaboratorOutcomes(st, id) ==
    {Returned(v) : v \in WorkerSuccessResults(st, id)}
    \cup {Returned(v) : v \in CollaboratorReturnValues(st, id)
                                 \cap {ErrorResult(id, "Failed to retrieve question")}}
    \cup {Raised(e) : e \in {"TimeoutError"}}

\* The id of an item of a stage's input list: stages 2 and 3 take ids,
\* stage 4 takes the generated data.
ItemId(stagePc, item) ==
    IF stagePc = "stage_4" THEN item.question_id ELSE item

NoTask == [state |-> "none", result |-> NoOutcome, starts |-> 0]

\* asyncio.gather returns when every task of the group is done
JoinReady_FirstCompleted(ts, group) == \E p \in group : ts[p].state = "done"

JoinReady(ts, group) == \A p \in group : ts[p].state = "done"

NoResult == [status |-> "none"]

NewRun(n, batch_size, auto_approve, training_type) ==
    [n |-> n, batch_size |-> batch_size, auto_approve |-> auto_approve,
     training_type |-> training_type,
     pc |-> "stage_1", i |-> 0, awaiting |-> FALSE,
     input |-> <<>>, out |-> <<>>, groups |-> <<>>,
     entered |-> {"stage_1"}, stored |-> <<>>, store_outcomes |-> <<>>,
     results |-> <<>>, result |-> NoResult]

\* Enter with stage 3 handed every stored question id, not the researched ones
Enter_Stage3GetsAllQuestions(r, stagePc, input) ==
    [r EXCEPT !.pc = stagePc, !.i = 0, !.awaiting = FALSE,
              !.input = IF stagePc = "stage_3" THEN [k \in 1..r.n |-> k] ELSE input,
              !.out = <<>>, !.groups = <<>>, !.entered = @ \cup {stagePc}]

\* The run enters a stage with its input list.
Enter(r, stagePc, input) ==
    [r EXCEPT !.pc = stagePc, !.i = 0, !.awaiting = FALSE, !.input = input,
              !.out = <<>>, !.groups = <<>>, !.entered = @ \cup {stagePc}]

\* The worker tasks when the run moves on: a batched stage starts with none
\* created; the tasks of stage 4 stay on record afterwards.
TasksFor(r, old) ==
    IF r.pc \in BatchedStages THEN [p \in 1..Len(r.input) |-> NoTask] ELSE old

\* Return without leaving the function
Return_StaysInStage(r, result) == [r EXCEPT !.result = result]

\* `return {...}` of generate_synthetic_data
Return(r, result) == [r EXCEPT !.pc = "done", !.result = result]

AbortResult(p, error) ==
    [status |-> "error", error |-> error, progress |-> get_summary(p)]

ExceptionResult(p, e, results) ==
    [status |-> "error", error |-> Message(e), progress |-> get_summary(p),
     results |-> results]

\* FinalStatus with `>= 0` in the elif
FinalStatus_PartialWhenNoneApproved(p, n) ==
    IF p.stages["approved"] = n THEN "success"
    ELSE IF p.stages["approved"] >= 0 THEN "partial"
    ELSE "error"

\* "Determine final status"
FinalStatus(p, n) ==
    IF p.stages["approved"] = n THEN "success"
    ELSE IF p.stages["approved"] > 0 THEN "partial"
    ELSE "error"

\* FinalSummary with success_rate left as the fraction approved / total
FinalSummary_RateAsFraction(p, n) ==
    [total_questions |-> n,
     researched |-> p.stages["researched"],
     generated |-> p.stages["generated"],
     reviewed |-> p.stages["reviewed"],
     approved |-> p.stages["approved"],
     rejected |-> p.stages["reviewed"] - p.stages["approved"],
     failed |-> p.stages["failed"],
     success_rate |-> IF n > 0 THEN p.stages["approved"] \div n ELSE 0]

\* "Final summary" (the rate is rounded down)
FinalSummary(p, n) ==
    [total_questions |-> n,
     researched |-> p.stages["researched"],
     generated |-> p.stages["generated"],
     reviewed |-> p.stages["reviewed"],
     approved |-> p.stages["approved"],
     rejected |-> p.stages["reviewed"] - p.stages["approved"],
     failed |-> p.stages["failed"],
     success_rate |-> IF n > 0 THEN (p.stages["approved"] * 100) \div n ELSE 0]

\* FinalResult with an early `return {...}` when nothing was generated
FinalResult_AbortWhenNothingGenerated(p, n, results) ==
    IF p.stages["generated"] = 0
    THEN AbortResult(p, "No data was generated")
    ELSE [status |-> FinalStatus(p, n),
          progress |-> get_summary(p),
          results |-> results,
          summary |-> FinalSummary(p, n),
          errors |-> p.errors]

FinalResult(p, n, results) ==
    [status |-> FinalStatus(p, n),
     progress |-> get_summary(p),
     results |-> results,
     summary |-> FinalSummary(p, n),
     errors |-> p.errors]

\* The exception leaves generate_synthetic_data for its caller.
Propagate(r, e) == [r EXCEPT !.pc = "raised", !.result = [raised |-> e]]

\* TopLevelExcept without the `except Exception` clause
TopLevelExcept_NoHandler(r, p, e) == Propagate(r, e)

\* `except Exception as e: return {...}` around the five stages
TopLevelExcept(r, p, e) ==
    IF IsInstance(e, "Exception")
    THEN Return(r, ExceptionResult(p, e, r.results))
    ELSE Propagate(r, e)

\* `if not question_ids: return {...}`, else stage 2 is entered.
AfterStage1(r, p, question_ids) ==
    IF question_ids = <<>>
    THEN Return(r, AbortResult(p, "Failed to add questions to database"))
    ELSE Enter(r, "stage_2", question_ids)

\* AfterStage2 without `if not researched_question_ids: return {...}`
AfterStage2_NoAbort(r, p) ==
    IF ~IsTrainingType(r.training_type)
    THEN TopLevelExcept(r, p, "ValueError")
    ELSE Enter(r, "stage_3", r.out)

\* `if not researched_question_ids: return {...}`, else TrainingType(...)
\* raises into `except Exception` or stage 3 is entered.
AfterStage2(r, p) ==
    IF r.out = <<>>
    THEN Return(r, AbortResult(p, "No questions were successfully researched"))
    ELSE IF ~IsTrainingType(r.training_type)
         THEN TopLevelExcept(r, p, "ValueError")
         ELSE Enter(r, "stage_3", r.out)

\* What _do_store of stage 1 can do: return the ids of the stored questions,
\* return [] when add_questions_to_database reports an error, or raise.
StoreQuestionsOutcomes(n) ==
    {Returned([k \in 1..n |-> k]), Returned(<<>>), Raised("TimeoutError")}

\* add_questions_to_database in a run that process_pending_questions
\* started: one new row per question text, in pipeline stage pending (the
\* default of the column), under the topic the call was given.  The ids of
\* the run count the new rows: the k-th has row id question_ids_added[k].
add_questions_to_database(p, stored) ==
    IF p.pc = "delegated" /\ stored
    THEN LET first == Len(p.table)
             topic == IF p.topic # "None" THEN p.topic
                      ELSE p.pending_questions[1].topic
         IN  [p EXCEPT
                !.table = @ \o [k \in 1..Len(p.questions) |->
                                 [id |-> first + k, question |-> p.questions[k],
                                  topic |-> topic, pipeline_stage |-> "pending",
                                  training_type |-> "sft"]],
                !.question_ids_added = [k \in 1..Len(p.questions) |-> first + k]]
    ELSE p

\* update_question_context in such a run: the row of the researched
\* question goes to pipeline stage ready_for_generation.
update_question_context(p, id, updated) ==
    IF p.pc = "delegated" /\ updated /\ id \in DOMAIN p.question_ids_added
    THEN [p EXCEPT !.table[p.question_ids_added[id]].pipeline_stage =
                       "ready_for_generation"]
    ELSE p

\* stage_1_store_questions and the check of its result.
stage_1_store_questions ==
    LET adm == CheckState(cbs["database"], now)
    IN  /\ run.pc = "stage_1"
        /\ \E out \in StoreQuestionsOutcomes(run.n) :
             LET after == IF adm.admitted
                          THEN AfterFunc(adm.cb, now, out)
                          ELSE [cb |-> adm.cb, outcome |-> Raised(CircuitBreakerOpenError)]
                 question_ids == IF after.outcome.kind = "return"
                                 THEN after.outcome.val ELSE <<>>
                 p == IF after.outcome.kind = "return"
                      THEN update(progress, "questions_added", Len(question_ids))
                      ELSE progress
             IN  /\ cbs' = [cbs EXCEPT !["database"] = after.cb]
                 /\ progress' = p
                 /\ run' = AfterStage1(run, p, question_ids)
                 /\ tasks' = TasksFor(run', tasks)
                 /\ pend' = add_questions_to_database(pend, question_ids # <<>>)
        /\ UNCHANGED <<breakerVars, retryVars, workerVars, joinVars>>

\* The positions (1-based) of the input items of the group at offset i.
GroupAt(r) == (r.i + 1)..(r.i + Len(Batch(r.input, r.i, r.batch_size)))

\* A run that keeps the history of its ground-truth lookups (InitLookup)
\* records that one of them gave the review worker an empty ground truth.
Looked(r, some_empty) ==
    IF "empty_ground_truth" \in DOMAIN r
    THEN [r EXCEPT !.empty_ground_truth = @ \/ some_empty]
    ELSE r

\* What the session's query for the row of a question can do: give the row,
\* give no row, or raise.  Only stage 4 looks the question up.
LookupKinds(stagePc) ==
    IF stagePc = "stage_4" THEN {"row", "no row", "raises"} ELSE {"no lookup"}

NoRow == [none |-> TRUE]

SessionOutcome(kind, id) ==
    CASE kind = "row" ->
            Returned([id |-> id, ground_truth_context |-> <<"context", id>>])
      [] kind = "raises" -> Raised("OperationalError")
      [] OTHER -> Returned(NoRow)

\* get_question_by_id without its `except Exception` clause
get_question_by_id_NoExcept(q) == q

\* DatabaseTools.get_question_by_id: the row as a dict, None, or
\* {"error": str(e)} when the query raises.
get_question_by_id(q) ==
    IF q.kind = "raise" THEN Returned([error |-> q.val]) ELSE q

\* question_data.get("ground_truth_context", "") if question_data else ""
GroundTruth(question_data) ==
    IF question_data = NoRow
    THEN ""
    ELSE IF "ground_truth_context" \in DOMAIN question_data
         THEN question_data.ground_truth_context
         ELSE ""

\* One iteration of `for i in range(0, len(items), batch_size)` up to the
\* await: the coroutines of the batch are created (stage 4 first looks up the
\* ground truth of each item) and handed to asyncio.gather together.
GroupStart ==
    /\ run.pc \in BatchedStages
    /\ ~run.awaiting
    /\ run.i < Len(run.input)
    /\ \E looked_up \in [GroupAt(run) -> LookupKinds(run.pc)] :
         LET question_data ==
                 [p \in GroupAt(run) |->
                     get_question_by_id(
                         SessionOutcome(looked_up[p], ItemId(run.pc, run.input[p])))]
             raising == {p \in GroupAt(run) : question_data[p].kind = "raise"}
             ground_truth == [p \in GroupAt(run) \ raising |->
                                 GroundTruth(question_data[p].val)]
         IN  IF raising # {}
             THEN /\ run' = TopLevelExcept(run, progress,
                                           question_data[CHOOSE p \in raising : TRUE].val)
                  /\ UNCHANGED tasks
             ELSE /\ tasks' = [p \in DOMAIN tasks |->
                                  IF p \in GroupAt(run)
                                  THEN [state |-> "scheduled", result |-> NoOutcome,
                                        starts |-> tasks[p].starts + 1]
                                  ELSE tasks[p]]
                  /\ run' = Looked(
                               [run EXCEPT !.awaiting = TRUE,
                                           !.groups = Append(@, Cardinality(GroupAt(run)))],
                               /\ run.pc = "stage_4"
                               /\ \E p \in GroupAt(run) : ground_truth[p] = "")
    /\ UNCHANGED <<breakerVars, retryVars, workerVars, progress, cbs, joinVars, pendingVars>>

\* The worker of item p runs up to its await: call_async of the breaker of
\* its class admits the call, or rejects it and the worker returns an error
\* result.
TaskBegin(p) ==
    LET c == ClassOf(run.pc)
        id == ItemId(run.pc, run.input[p])
        adm == CheckState(cbs[c], now)
    IN  /\ run.pc \in BatchedStages
        /\ p \in DOMAIN tasks
        /\ tasks[p].state = "scheduled"
        /\ cbs' = [cbs EXCEPT ![c] = adm.cb]
        /\ tasks' = [tasks EXCEPT ![p] =
              IF adm.admitted
              THEN [@ EXCEPT !.state = "awaiting"]
              ELSE [@ EXCEPT !.state = "done",
                             !.result = WorkerBodyOutcome(id, Raised(CircuitBreakerOpenError))]]
        /\ UNCHANGED <<breakerVars, retryVars, workerVars, run, progress, joinVars, pendingVars>>

\* The collaborator call of the worker of item p ends; the worker returns.
TaskEnd(p) ==
    LET c == ClassOf(run.pc)
        id == ItemId(run.pc, run.input[p])
    IN  /\ run.pc \in BatchedStages
        /\ p \in DOMAIN tasks
        /\ tasks[p].state = "awaiting"
        /\ \E out \in CollaboratorOutcomes(c, id) :
             LET after == AfterFunc(cbs[c], now, out)
             IN  /\ cbs' = [cbs EXCEPT ![c] = after.cb]
                 /\ tasks' = [tasks EXCEPT ![p] =
                       [@ EXCEPT !.state = "done",
                                 !.result = WorkerBodyOutcome(id, after.outcome)]]
                 /\ pend' = update_question_context(
                                pend, id,
                                /\ c = "research"
                                /\ out.kind = "return"
                                /\ out.val.status = "success")
        /\ UNCHANGED <<breakerVars, retryVars, workerVars, run, progress, joinVars>>

\* The entries asyncio.gather hands back for the tasks at positions lo..hi.
RECURSIVE BatchResults(_, _, _)
BatchResults(ts, lo, hi) ==
    IF lo > hi THEN <<>>
    ELSE (IF ts[lo].state = "done" THEN <<ts[lo].result>> ELSE <<>>)
         \o BatchResults(ts, lo + 1, hi)

\* asyncio.gather returns; the result loop runs; the next offset is i + batch_size.
GroupJoin ==
    LET group == GroupAt(run)
        acc == ProcessResults(ClassOf(run.pc),
                              [out |-> run.out, progress |-> progress],
                              BatchResults(tasks, run.i + 1, run.i + Cardinality(group)),
                              run.auto_approve)
    IN  /\ run.pc \in BatchedStages
        /\ run.awaiting
        /\ JoinReady(tasks, group)
        /\ progress' = acc.progress
        /\ run' = [run EXCEPT !.awaiting = FALSE, !.out = acc.out,
                              !.i = NextOffset(@, run.batch_size)]
        /\ UNCHANGED <<breakerVars, retryVars, workerVars, tasks, cbs, joinVars, pendingVars>>

\* LoopOver with the loop left after its first iteration
LoopOver_AfterFirstGroup(r) == r.i > 0 \/ r.i >= Len(r.input)

\* range(0, len(items), batch_size) is exhausted
LoopOver(r) == r.i >= Len(r.input)

\* The loop of a batched stage is over: the stage returns its list and
\* generate_synthetic_data goes on.
StageReturn ==
    /\ run.pc \in BatchedStages
    /\ ~run.awaiting
    /\ LoopOver(run)
    /\ run' = CASE run.pc = "stage_2" -> AfterStage2(run, progress)
                [] run.pc = "stage_3" -> Enter(run, "stage_4", run.out)
                [] run.pc = "stage_4" -> Enter(run, "stage_5", run.out)
    /\ tasks' = TasksFor(run', tasks)
    /\ UNCHANGED <<breakerVars, retryVars, workerVars, progress, cbs, joinVars, pendingVars>>

\* What the retry-wrapped _do_store of stage 5 can do: add_synthetic_data
\* returns a success or an error result, or every attempt raises.
StoreOutcomes ==
    {Returned([status |-> "success", error |-> "none"]),
     Returned([status |-> "error", error |-> "Storage failed"]),
     Raised("TimeoutError")}

StoreMaxAttempts == 3
StoreInitialDelay == 1
StoreMaxDelay == 5
StoreExponentialBase == 2

\* The arguments of the retry_with_backoff decorator on _do_store
StoreRetryConfig ==
    [max_attempts |-> StoreMaxAttempts,
     initial_delay |-> StoreInitialDelay,
     max_delay |-> StoreMaxDelay,
     exponential_base |-> StoreExponentialBase,
     retry_on |-> {"Exception"}]

\* What the successive calls of add_synthetic_data made by the wrapper of
\* _do_store do: each but the last raises, and the last one returns unless
\* it is call number max_attempts.
StoreAttempts ==
    {outs \in UNION {[1..k -> StoreOutcomes] : k \in 1..StoreMaxAttempts} :
        /\ \A j \in 1..(Len(outs) - 1) : outs[j].kind = "raise"
        /\ outs[Len(outs)].kind = "return" \/ Len(outs) = StoreMaxAttempts}

\* The loop of the retry wrapper run to its end over the outcomes `outs` of
\* the successive calls of the wrapped function.
RECURSIVE RetryRun(_, _)
RetryRun(r, outs) ==
    IF r.pc = "loop" /\ r.attempt < r.cfg.max_attempts /\ outs # <<>>
    THEN LET o == Head(outs)
             after == IF o.kind = "return"
                      THEN RetryAfterReturn(r, o.val)
                      ELSE RetryAfterRaise(r, Error(o.val, r.calls + 1))
         IN  RetryRun(IF after.pc = "sleep" THEN RetryAfterSleep(after) ELSE after,
                      Tail(outs))
    ELSE IF r.pc = "loop" THEN RetryAfterLoop(r) ELSE r

\* One call of the retry-wrapped _do_store: what it gives back to
\* call_async, after how many calls of add_synthetic_data, how many of
\* which raised.
do_store(outs) ==
    LET r == RetryRun(NewRetry(StoreRetryConfig), outs)
    IN  [outcome |-> IF r.pc = "returned" THEN r.out ELSE Raised(r.out.val.cls),
         calls |-> r.calls,
         failed |-> Len(r.errors)]

\* What `await database_circuit_breaker.call_async(_do_store)` can get from
\* _do_store once the call is admitted.
StoreResults == {do_store(outs) : outs \in StoreAttempts}

\* A run that keeps the history of its store attempts (InitStore) records,
\* for one item of stage 5, whether the database breaker admitted the call
\* and the calls of add_synthetic_data made for it.
Attempted(r, admitted, done) ==
    IF "store_attempts" \in DOMAIN r
    THEN [r EXCEPT !.store_attempts =
             Append(@, [admitted |-> admitted,
                        calls |-> IF admitted THEN done.calls ELSE 0,
                        failed |-> IF admitted THEN done.failed ELSE 0])]
    ELSE r

\* AfterStore with `progress.update("approved")` ahead of the status test
AfterStore_CountsEveryReturn(p, question_id, store_result) ==
    IF store_result.kind = "return"
    THEN IF store_result.val.status = "success"
         THEN update(p, "approved", 1)
         ELSE update(add_error(p, question_id, "storage", store_result.val.error),
                     "approved", 1)
    ELSE add_error(p, question_id, "storage", Message(store_result.val))

\* What stage 5 does to the PipelineProgress with the store_result of
\* database_circuit_breaker.call_async(_do_store) for one item.
AfterStore(p, question_id, store_result) ==
    IF store_result.kind = "return"
    THEN IF store_result.val.status = "success"
         THEN update(p, "approved", 1)
         ELSE add_error(p, question_id, "storage", store_result.val.error)
    ELSE add_error(p, question_id, "storage", Message(store_result.val))

\* One iteration of `for data in reviewed_data_list` of stage_5_final_storage.
StoreItem ==
    LET data == run.input[run.i + 1]
        question_id == data.question_id
        adm == CheckState(cbs["database"], now)
    IN  /\ run.pc = "stage_5"
        /\ run.i < Len(run.input)
        /\ \E done \in StoreResults :
             LET after == IF adm.admitted
                          THEN AfterFunc(adm.cb, now, done.outcome)
                          ELSE [cb |-> adm.cb, outcome |-> Raised(CircuitBreakerOpenError)]
                 stored == after.outcome.kind = "return"
                           /\ after.outcome.val.status = "success"
             IN  /\ cbs' = [cbs EXCEPT !["database"] = after.cb]
                 /\ progress' = AfterStore(progress, question_id, after.outcome)
                 /\ run' = Attempted(
                       [run EXCEPT
                          !.i = @ + 1,
                          !.stored = Append(@, question_id),
                          !.store_outcomes = Append(@, after.outcome),
                          !.results = IF stored
                                      THEN Append(@, [question_id |-> question_id,
                                                      status |-> "success",
                                                      review_status |-> data.review_status])
                                      ELSE @],
                       adm.admitted, done)
        /\ UNCHANGED <<breakerVars, retryVars, workerVars, tasks, joinVars, pendingVars>>

\* Stage 5 returns: the final summary and status, and the result.
Finish ==
    /\ run.pc = "stage_5"
    /\ run.i >= Len(run.input)
    /\ run' = Return(run, FinalResult(progress, run.n, run.results))
    /\ UNCHANGED <<breakerVars, retryVars, workerVars, progress, tasks, cbs, joinVars, pendingVars>>

InitPipeline ==
    /\ NoCallers /\ NoRetry /\ NoWorkers /\ NoJoin /\ NoPending
    /\ cb = [state |-> "unused"]
    /\ now = 1
    /\ \E n \in 0..MaxQuestions, batch_size \in 1..MaxBatchSize,
          auto_approve \in BOOLEAN, training_type \in TrainingTypeNames :
            /\ run = NewRun(n, batch_size, auto_approve, training_type)
            /\ progress = PipelineProgress(n)
    /\ tasks = <<>>
    /\ \E earlier \in BreakerClasses \cup {"none"} :
         cbs = [c \in BreakerClasses |-> FailuresLeftBy(earlier, c)]

NextPipeline ==
    \/ stage_1_store_questions
    \/ GroupStart
    \/ \E p \in 1..(MaxQuestions + 1) : TaskBegin(p)
    \/ \E p \in 1..(MaxQuestions + 1) : TaskEnd(p)
    \/ GroupJoin
    \/ StageReturn
    \/ StoreItem
    \/ Finish

SpecPipeline == InitPipeline /\ [][NextPipeline]_vars

\* The steps the event loop makes on its own: it runs every coroutine that
\* is ready, so none of them stays enabled forever without being taken.
LoopStep ==
    \/ stage_1_store_questions
    \/ GroupStart
    \/ \E p \in 1..(MaxQuestions + 1) : TaskBegin(p)
    \/ GroupJoin
    \/ StageReturn
    \/ StoreItem
    \/ Finish

\* Every collaborator call that is awaited eventually returns or raises.
CollaboratorsAnswer == WF_vars(\E p \in 1..(MaxQuestions + 1) : TaskEnd(p))

MaxFairQuestions == 2

\* The runs of InitPipeline over at most MaxFairQuestions questions.
InitPipelineFair ==
    /\ NoCallers /\ NoRetry /\ NoWorkers /\ NoJoin /\ NoPending
    /\ cb = [state |-> "unused"]
    /\ now = 1
    /\ \E n \in 0..MaxFairQuestions, batch_size \in 1..MaxBatchSize,
          auto_approve \in BOOLEAN, training_type \in TrainingTypeNames :
            /\ run = NewRun(n, batch_size, auto_approve, training_type)
            /\ progress = PipelineProgress(n)
    /\ tasks = <<>>
    /\ \E earlier \in BreakerClasses \cup {"none"} :
         cbs = [c \in BreakerClasses |-> FailuresLeftBy(earlier, c)]

SpecPipelineFair ==
    InitPipelineFair /\ [][NextPipeline]_vars /\ WF_vars(LoopStep) /\ CollaboratorsAnswer

\* One run with a valid training type in a fresh process, which keeps the
\* history of the ground-truth lookups of stage 4.
InitLookup ==
    /\ NoCallers /\ NoRetry /\ NoWorkers /\ NoJoin /\ NoPending
    /\ cb = [state |-> "unused"]
    /\ now = 1
    /\ \E n \in 0..MaxQuestions, batch_size \in 1..MaxBatchSize,
          auto_approve \in BOOLEAN :
            /\ run = NewRun(n, batch_size, auto_approve, "sft")
                        @@ [empty_ground_truth |-> FALSE]
            /\ progress = PipelineProgress(n)
    /\ tasks = <<>>
    /\ cbs = [c \in BreakerClasses |-> FailuresLeftBy("none", c)]

SpecLookup == InitLookup /\ [][NextPipeline]_vars

\* One run with a valid training type in a fresh process, which keeps the
\* history of the store attempts of stage 5.
InitStore ==
    /\ NoCallers /\ NoRetry /\ NoWorkers /\ NoJoin /\ NoPending
    /\ cb = [state |-> "unused"]
    /\ now = 1
    /\ \E n \in 0..MaxQuestions, batch_size \in 1..MaxBatchSize,
          auto_approve \in BOOLEAN :
            /\ run = NewRun(n, batch_size, auto_approve, "sft")
                        @@ [store_attempts |-> <<>>]
            /\ progress = PipelineProgress(n)
    /\ tasks = <<>>
    /\ cbs = [c \in BreakerClasses |-> FailuresLeftBy("none", c)]

SpecStore == InitStore /\ [][NextPipeline]_vars

DefaultBatchSize == 10

\* The values of the max_questions argument: None (the default) or an int.
NoMaxQuestions == [none |-> TRUE]
MaxQuestionsArgs == {NoMaxQuestions} \cup {[int |-> k] : k \in 0..(MaxQuestions + 1)}

\* `if max_questions: questions = questions[:max_questions]`
LimitQuestions(questions, max_questions) ==
    IF "int" \in DOMAIN max_questions /\ max_questions.int # 0
    THEN SubSeq(questions, 1, Min(max_questions.int, Len(questions)))
    ELSE questions

\* One run in a fresh process started with a list of questions and a
\* max_questions argument, both of which it keeps on record.
InitLimit ==
    /\ NoCallers /\ NoRetry /\ NoWorkers /\ NoJoin /\ NoPending
    /\ cb = [state |-> "unused"]
    /\ now = 1
    /\ \E given \in 0..MaxQuestions, max_questions \in MaxQuestionsArgs :
         LET questions == [k \in 1..given |-> <<"question", k>>]
             limited == LimitQuestions(questions, max_questions)
         IN  /\ run = NewRun(Len(limited), DefaultBatchSize, FALSE, "sft")
                         @@ [given |-> questions, max_questions |-> max_questions,
                             questions |-> limited]
             /\ progress = PipelineProgress(Len(limited))
    /\ tasks = <<>>
    /\ cbs = [c \in BreakerClasses |-> FailuresLeftBy("none", c)]

SpecLimit == InitLimit /\ [][NextPipeline]_vars

(***************************************************************************)
(* PipelineProgress of src/orchestrator/workflows.py on its own: a caller   *)
(* that makes any sequence of update and add_error calls on one tracker    *)
(***************************************************************************)
MaxProgressCalls == 3
MaxCount == 2

\* The stage names a caller passes to update: the six counters and a name
\* that is not a key of self.stages.
UpdateStageArgs == StageCounters \cup {"unknown_stage"}

\* The caller of the tracker: the number of calls it has made, and the sum
\* of the counts it has passed to update("failed", count) itself.
Caller(calls, direct_failed) ==
    [pc |-> "tracker", calls |-> calls, direct_failed |-> direct_failed]

\* progress.update(stage, count)
progress_update ==
    /\ run.pc = "tracker" /\ run.calls < MaxProgressCalls
    /\ \E st \in UpdateStageArgs, count \in 0..MaxCount :
         /\ progress' = update(progress, st, count)
         /\ run' = Caller(run.calls + 1,
                          run.direct_failed + (IF st = "failed" THEN count ELSE 0))
    /\ UNCHANGED <<cb, now, pc, funcOut, outcome, probe, consec, rt, stage,
                   worker, tasks, cbs, agg, pend>>

\* progress.add_error(question_id, stage, error)
progress_add_error ==
    /\ run.pc = "tracker" /\ run.calls < MaxProgressCalls
    /\ \E question_id \in 1..MaxItemId, st \in Stages :
         progress' = add_error(progress, question_id, st, "error message")
    /\ run' = Caller(run.calls + 1, run.direct_failed)
    /\ UNCHANGED <<cb, now, pc, funcOut, outcome, probe, consec, rt, stage,
                   worker, tasks, cbs, agg, pend>>

\* A tracker as PipelineProgress(total_questions) leaves it.
InitProgress ==
    /\ NoBreaker /\ NoCallers /\ NoRetry /\ NoWorkers /\ NoJoin /\ NoPending
    /\ run = Caller(0, 0)
    /\ \E total_questions \in 0..MaxQuestions :
         progress = PipelineProgress(total_questions)
    /\ tasks = <<>> /\ cbs = <<>>

NextProgress == progress_update \/ progress_add_error

SpecProgress == InitProgress /\ [][NextProgress]_vars

(***************************************************************************)
(* process_pending_questions of src/orchestrator/workflows.py and the      *)
(* query DatabaseTools.get_questions_by_stage it starts with               *)
(***************************************************************************)
None == "None"
Topics == {"chemistry", "physics"}
PipelineStages == {"pending", "ready_for_generation"}

\* The rows of the questions table: row k has id k and its own text.
QuestionRow(k, topic, pipeline_stage) ==
    [id |-> k, question |-> <<"question", k>>, topic |-> topic,
     pipeline_stage |-> pipeline_stage, training_type |-> "sft"]

RECURSIVE Tables(_)
Tables(k) ==
    IF k = 0
    THEN {<<>>}
    ELSE Tables(k - 1)
         \cup {Append(t, QuestionRow(k, topic, st)) :
                  t \in {u \in Tables(k - 1) : Len(u) = k - 1},
                  topic \in Topics, st \in PipelineStages}

\* The filters of the query: the stage, and the topic when one is given.
Filtered(rows, pipeline_stage, topic) ==
    LET Match(q) == /\ q.pipeline_stage = pipeline_stage
                    /\ (topic # None => q.topic = topic)
    IN  SelectSeq(rows, Match)

\* The rows of s at the positions in S, in the order of s.
Pick(s, S) ==
    [i \in 1..Cardinality(S) |->
        s[CHOOSE x \in S : Cardinality({y \in S : y < x}) = i - 1]]

\* `if limit: query = query.limit(limit)`: the query has no ORDER BY, so
\* the database chooses which `limit` of the matching rows it returns.
Limited(rows, limit) ==
    IF limit # 0 /\ limit < Len(rows)
    THEN {Pick(rows, S) : S \in {T \in SUBSET (1..Len(rows)) : Cardinality(T) = limit}}
    ELSE {rows}

\* The lists get_questions_by_stage can return: the rows, or one error
\* entry when the session raises.
get_questions_by_stage(rows, pipeline_stage, topic, limit, raises) ==
    IF raises
    THEN {<<[error |-> "OperationalError"]>>}
    ELSE Limited(Filtered(rows, pipeline_stage, topic), limit)

\* QuestionsOf without the last of the pending questions
QuestionsOf_DropsLast(pending_questions) ==
    [k \in 1..(Len(pending_questions) - 1) |-> pending_questions[k].question]

\* questions = [q["question"] for q in pending_questions]
QuestionsOf(pending_questions) ==
    [k \in 1..Len(pending_questions) |-> pending_questions[k].question]

\* An activation of process_pending_questions: rows is the questions table
\* when the call is made, table the questions table as it is now.
NewPending(rows, topic, training_type, limit, auto_approve) ==
    [pc |-> "called", rows |-> rows, table |-> rows, topic |-> topic,
     training_type |-> training_type, limit |-> limit,
     auto_approve |-> auto_approve,
     pending_questions |-> <<>>, questions |-> <<>>, result |-> NoResult,
     entry |-> "process_pending_questions", failed_before |-> {},
     question_ids_added |-> <<>>]

\* An activation of resume_failed_questions; failed_before are the ids of
\* the stored questions an earlier run failed to research (they stay pending).
NewResume(rows, topic, failed_before) ==
    [NewPending(rows, topic, None, 0, FALSE) EXCEPT
        !.pc = "resume_called", !.entry = "resume_failed_questions",
        !.failed_before = failed_before]

NoFailedResult ==
    [status |-> "success", message |-> "No failed questions to resume", resumed |-> 0]

\* ResumeCall with a limit of one question
ResumeCall_LimitOne(p) ==
    [p EXCEPT !.pc = "called", !.training_type = None, !.limit = 1,
              !.auto_approve = FALSE]

\* process_pending_questions(topic=topic, sub_topic=sub_topic,
\* database_tools=database_tools): the other parameters take their defaults.
ResumeCall(p) ==
    [p EXCEPT !.pc = "called", !.training_type = None, !.limit = 0,
              !.auto_approve = FALSE]

\* resume_failed_questions up to its call of process_pending_questions: the
\* query without a limit and the early return.
resume_failed_questions ==
    /\ pend.pc = "resume_called"
    /\ \E raises \in BOOLEAN :
       \E pending \in get_questions_by_stage(pend.table, "pending", pend.topic, 0, raises) :
         pend' = IF pending = <<>>
                 THEN [pend EXCEPT !.pc = "nothing_to_resume", !.result = NoFailedResult]
                 ELSE ResumeCall(pend)
    /\ UNCHANGED <<breakerVars, retryVars, workerVars, pipelineVars, joinVars>>

NoPendingResult ==
    [status |-> "success", message |-> "No pending questions found", processed |-> 0]

\* process_pending_questions up to the call of generate_synthetic_data: the
\* query, the early return, the extraction of the question texts (a KeyError
\* on the error entry of a failed query), and the start of the run.
process_pending_questions ==
    /\ pend.pc = "called"
    /\ \E raises \in BOOLEAN :
       \E pending_questions \in
             get_questions_by_stage(pend.table, "pending", pend.topic, pend.limit, raises) :
         IF pending_questions = <<>>
         THEN /\ pend' = [pend EXCEPT !.pc = "done", !.result = NoPendingResult]
              /\ UNCHANGED pipelineVars
         ELSE IF \E k \in DOMAIN pending_questions :
                    "question" \notin DOMAIN pending_questions[k]
         THEN /\ pend' = [pend EXCEPT !.pc = "raised",
                                      !.pending_questions = pending_questions,
                                      !.result = [raised |-> "KeyError"]]
              /\ UNCHANGED pipelineVars
         ELSE LET questions == QuestionsOf(pending_questions)
                  training_type == IF pend.training_type # None
                                   THEN pend.training_type
                                   ELSE pending_questions[1].training_type
              IN  /\ pend' = [pend EXCEPT !.pc = "delegated",
                                          !.pending_questions = pending_questions,
                                          !.questions = questions]
                  /\ run' = NewRun(Len(questions), DefaultBatchSize,
                                   pend.auto_approve, training_type)
                  /\ progress' = PipelineProgress(Len(questions))
                  /\ tasks' = <<>>
                  /\ UNCHANGED cbs
    /\ UNCHANGED <<breakerVars, retryVars, workerVars, joinVars>>

\* `return await generate_synthetic_data(...)`: the result of the run is
\* the result of process_pending_questions.
PendingReturn ==
    /\ pend.pc = "delegated"
    /\ run.pc \in {"done", "raised"}
    /\ pend' = [pend EXCEPT !.pc = run.pc, !.result = run.result]
    /\ UNCHANGED <<breakerVars, retryVars, workerVars, pipelineVars, joinVars>>

InitPending ==
    /\ NoCallers /\ NoRetry /\ NoWorkers /\ NoJoin
    /\ cb = [state |-> "unused"]
    /\ now = 1
    /\ run = [pc |-> "unused"] /\ progress = [total |-> 0] /\ tasks = <<>>
    /\ cbs = [c \in BreakerClasses |-> FailuresLeftBy("none", c)]
    /\ \E rows \in Tables(MaxPending), topic \in {None, "chemistry"} :
          \/ \E training_type \in {None} \cup TrainingTypeNames,
                limit \in 0..MaxPending, auto_approve \in BOOLEAN :
                  pend = NewPending(rows, topic, training_type, limit, auto_approve)
          \/ \E failed_before \in SUBSET (1..1) :
                /\ \A k \in failed_before :
                       /\ k \in DOMAIN rows
                       /\ rows[k].pipeline_stage = "pending"
                /\ pend = NewResume(rows, topic, failed_before)

NextPending ==
    \/ resume_failed_questions
    \/ process_pending_questions
    \/ PendingReturn
    \/ stage_1_store_questions
    \/ GroupStart
    \/ \E p \in 1..(MaxQuestions + 1) : TaskBegin(p)
    \/ \E p \in 1..(MaxQuestions + 1) : TaskEnd(p)
    \/ GroupJoin
    \/ StageReturn
    \/ StoreItem
    \/ Finish

SpecPending == InitPending /\ [][NextPending]_vars

(***************************************************************************)
(* Properties of the circuit breaker (SpecBreaker)                         *)
(***************************************************************************)
Expected(e) == IsInstance(e, cb.expected_exception)

InCooldown == (now - cb.last_failure_time) < cb.recovery_timeout

\* Caller c completes its admitted call in this step with an expected failure.
FailsNow(c) ==
    /\ Running(c) /\ pc'[c] = "raised"
    /\ funcOut'[c].kind = "raise" /\ Expected(funcOut'[c].val)

\* C1: once failure_threshold calls in a row have failed, no call attempted
\* before recovery_timeout has elapsed since last_failure_time is admitted:
\* it raises CircuitBreakerOpenError and the wrapped function does not run.
C1_RejectsAfterThresholdFailures ==
    [][(consec >= cb.failure_threshold /\ InCooldown)
         => \A c \in Callers :
              ~Running(c) => /\ pc'[c] \notin {"call", "call_async"}
                             /\ (pc'[c] # pc[c] \/ outcome'[c] # outcome[c]
                                   => outcome'[c] = Raised(CircuitBreakerOpenError))]_vars

\* C2: with the breaker OPEN and the cooldown elapsed the next call is
\* admitted in HALF_OPEN, and when that call succeeds the breaker is CLOSED
\* with failure_count = 0.
C2_ProbeSuccessCloses ==
    [][\A c \in Callers :
         /\ (cb.state = OPEN /\ ~InCooldown /\ ~Running(c) /\ pc'[c] # pc[c])
              => (pc'[c] \in {"call", "call_async"} /\ cb'.state = HALF_OPEN)
         /\ (probe[c] /\ Running(c) /\ pc'[c] = "returned")
              => (cb'.state = CLOSED /\ cb'.failure_count = 0)]_vars

\* C3: the breaker leaves CLOSED for OPEN only when the failures since the
\* last successful call have reached failure_threshold.
C3_OpensOnlyOnConsecutiveFailures ==
    [][(cb.state = CLOSED /\ cb'.state = OPEN)
         => consec' >= cb.failure_threshold]_vars

\* C4: when the call that was admitted in HALF_OPEN fails, the breaker is
\* OPEN again, whatever failure_threshold is.
C4_ProbeFailureReopens ==
    [][\A c \in Callers :
         (probe[c] /\ cb.state = HALF_OPEN /\ FailsNow(c)) => cb'.state = OPEN]_vars

\* C5: while the probe admitted after the cooldown is in flight and the
\* breaker is HALF_OPEN, no other caller has its wrapped function invoked.
C5_SingleProbe ==
    [][(\E p \in Callers : probe[p] /\ Running(p) /\ cb.state = HALF_OPEN)
         => \A c \in Callers :
              ~Running(c) => pc'[c] \notin {"call", "call_async"}]_vars

\* C6: an admitted call gives back what the wrapped function returned; when
\* the function raises an expected exception, failure_count grows by exactly
\* one, last_failure_time is set to the current time and the caller gets that
\* same exception, not CircuitBreakerOpenError.
C6_AdmittedCallMirrorsFunction ==
    [][\A c \in Callers :
         (Running(c) /\ pc'[c] \notin {"call", "call_async"})
           => /\ funcOut'[c].kind = "return"
                   => (pc'[c] = "returned" /\ outcome'[c] = funcOut'[c])
              /\ (funcOut'[c].kind = "raise" /\ Expected(funcOut'[c].val))
                   => /\ cb'.failure_count = cb.failure_count + 1
                      /\ cb'.last_failure_time = now
                      /\ pc'[c] = "raised"
                      /\ outcome'[c] = funcOut'[c]]_vars

\* A call admitted while the count was 1 failed with ValueError at time > 1,
\* and another caller got its function's second result back.
C6_Witness ==
    \E c, d \in Callers :
        /\ pc[c] = "raised" /\ funcOut[c] = Raised("ValueError")
        /\ outcome[c] = Raised("ValueError")
        /\ cb.failure_count = 2 /\ cb.last_failure_time = now /\ now > 1
        /\ pc[d] = "returned" /\ funcOut[d] = Returned("r2")
        /\ outcome[d] = Returned("r2")

(***************************************************************************)
(* Properties of retry_with_backoff (SpecRetry)                            *)
(***************************************************************************)
AllRetryable == \A k \in 1..Len(rt.errors) : Caught(rt.errors[k], rt.cfg.retry_on)

ExpectedDelay(k) ==
    Min(rt.cfg.initial_delay * Pow(rt.cfg.exponential_base, k - 1), rt.cfg.max_delay)

\* C7: with max_attempts = M >= 1 and a retryable error on every attempt the
\* callable is invoked exactly M times, the wait after the k-th failure (k < M)
\* is min(initial_delay * exponential_base^(k-1), max_delay), there is no wait
\* after the M-th failure, and the error of the M-th attempt is raised.
C7_ExactAttemptsAndDelays ==
    LET M == rt.cfg.max_attempts
    IN  (M >= 1 /\ AllRetryable)
          => /\ rt.calls <= M
             /\ Len(rt.delays) <= M - 1
             /\ \A k \in 1..Len(rt.delays) : rt.delays[k] = ExpectedDelay(k)
             /\ rt.pc = "sleep" => Len(rt.delays) = rt.calls
             /\ rt.pc = "raised"
                  => /\ rt.calls = M
                     /\ Len(rt.delays) = M - 1
                     /\ rt.out = Raised(rt.errors[M])
                     /\ rt.errors[M].id = M

\* Three attempts with the workers' parameters: waits of 2 and 4, then the
\* third error is raised.
C7_Witness ==
    /\ rt.pc = "raised" /\ AllRetryable
    /\ rt.cfg.max_attempts = 3 /\ rt.calls = 3
    /\ rt.cfg.max_delay = DefaultMaxDelay
    /\ rt.delays = <<2, 4>>
    /\ rt.out = Raised(Error("ValueError", 3))

\* C8: an error whose class retry_on does not name propagates at once: it is
\* the outcome of the wrapper, the callable is not invoked after it and no
\* wait follows it, whatever number of attempts remains.
C8_NonRetryablePropagatesAtOnce ==
    \A k \in 1..Len(rt.errors) :
        ~Caught(rt.errors[k], rt.cfg.retry_on)
          => /\ rt.pc = "raised"
             /\ rt.out = Raised(rt.errors[k])
             /\ rt.calls = k
             /\ Len(rt.delays) = k - 1

\* The second of three attempts raised ValueError under retry_on = (TimeoutError,).
C8_Witness ==
    /\ rt.pc = "raised" /\ rt.cfg.max_attempts = 3 /\ rt.calls = 2
    /\ rt.cfg.retry_on = {"TimeoutError"}
    /\ rt.errors[1].cls = "TimeoutError"
    /\ rt.out = Raised(Error("ValueError", 2))

(***************************************************************************)
(* Properties of the per-item workers (SpecWorker)                         *)
(***************************************************************************)
\* C9: when the collaborator call raises for an item, an error result is
\* produced for the item only after max_attempts attempts, each of which went
\* through the breaker.
C9_ErrorOnlyAfterAllAttempts ==
    \A w \in Workers :
        (worker[w].rt.pc = "returned" /\ worker[w].funcOut.kind = "raise")
          => worker[w].rt.calls = WorkerMaxAttempts

\* C10: a worker never raises: an exception of the collaborator call, and the
\* breaker's CircuitBreakerOpenError, become a result with status error, the
\* item's id and the error's message.
C10_WorkersNeverRaise ==
    \A w \in Workers :
        /\ worker[w].rt.pc # "raised"
        /\ (worker[w].rt.pc = "returned" /\ worker[w].caught # "none")
             => worker[w].rt.out =
                  Returned([status |-> "error",
                            question_id |-> worker[w].item,
                            error |-> IF worker[w].caught = CircuitBreakerOpenError
                                      THEN "Circuit breaker open"
                                      ELSE worker[w].caught])

\* One worker was rejected by the open breaker and the other one's
\* collaborator raised: both hold an error result.
C10_Witness ==
    \E w, v \in Workers :
        /\ worker[w].rt.pc = "returned" /\ worker[w].caught = CircuitBreakerOpenError
        /\ worker[w].rt.out.val.status = "error"
        /\ worker[v].rt.pc = "returned" /\ worker[v].caught = "TimeoutError"
        /\ worker[v].rt.out.val.status = "error"

(***************************************************************************)
(* Properties of the result loop of a batched stage (SpecJoin)             *)
(***************************************************************************)
\* The entry of the joined group that the result loop looks at next.
NextEntry == agg.batch_results[agg.k + 1]

Ceil(n, b) == (n + b - 1) \div b

RECURSIVE Sum(_)
Sum(s) == IF s = <<>> THEN 0 ELSE Head(s) + Sum(Tail(s))

\* The loop of a batched stage is at its head, no group in flight.
AtLoopHead == run.pc \in BatchedStages /\ ~run.awaiting

\* The loop of a batched stage has run over its whole input list.
StageOver == AtLoopHead /\ run.i >= Len(run.input)

\* C11: a batched stage over N items with batch_size B runs ceil(N/B)
\* consecutive groups of at most B items that cover the list, and starts its
\* worker exactly once for each item: never twice, and none is skipped.
C11_EveryItemStartedOnceInGroups ==
    /\ run.pc \in BatchedStages =>
          /\ \A p \in DOMAIN tasks : tasks[p].starts <= 1
          /\ \A g \in DOMAIN run.groups :
                run.groups[g] >= 1 /\ run.groups[g] <= run.batch_size
    /\ StageOver =>
          /\ Len(run.groups) = Ceil(Len(run.input), run.batch_size)
          /\ Sum(run.groups) = Len(run.input)
          /\ \A p \in DOMAIN tasks : tasks[p].starts = 1

C11_Witness ==
    /\ StageOver
    /\ Len(run.input) = 3 /\ run.batch_size = 2
    /\ run.groups = <<2, 1>>

\* The group (1-based) the item at position p of the input list belongs to.
GroupOf(p) == ((p - 1) \div run.batch_size) + 1

\* The worker of the item at position p has been started / has finished.
Started(p) == tasks[p].state # "none"
Done(p) == tasks[p].state = "done"

\* C12: within a batched stage no worker of a later group is started before
\* every worker of the earlier groups has finished, and the workers of one
\* group are all started before any of them runs or is awaited.
C12_GroupsStrictlySequential ==
    run.pc \in BatchedStages =>
        \A p, q \in DOMAIN tasks :
            /\ (GroupOf(p) < GroupOf(q) /\ Started(q)) => Done(p)
            /\ (GroupOf(p) = GroupOf(q) /\ tasks[p].state \in {"awaiting", "done"})
                    => Started(q)

C12_Witness ==
    /\ run.pc \in BatchedStages
    /\ run.batch_size = 2 /\ Len(run.input) = 3
    /\ Done(1) /\ Done(2) /\ tasks[3].state = "awaiting"

\* The workers of the current stage that have finished all returned success.
AllSucceededSoFar ==
    \A p \in DOMAIN tasks :
        Done(p) => (tasks[p].result.kind = "return"
                    /\ tasks[p].result.val.status = "success")

\* The PipelineProgress counter of the stage the run is in.
StageCounter == progress.stages[CounterOf(ClassOf(run.pc))]

\* C13: with every item succeeding, the counter of a batched stage seen at
\* the start of group k+1 (k groups joined) is min(k * batch_size, N).
C13_CounterAdvancesPerGroup ==
    (AtLoopHead /\ AllSucceededSoFar)
        => StageCounter = Min(Len(run.groups) * run.batch_size, Len(run.input))

C13_Witness ==
    /\ AtLoopHead /\ AllSucceededSoFar
    /\ Len(run.input) = 3 /\ run.batch_size = 2
    /\ Len(run.groups) = 1 /\ StageCounter = 2

\* The ids of the items of the input and of the output list of the current
\* stage (stages 2 and 3 take ids, stage 2 hands on ids; the rest is data).
InputIds ==
    IF run.pc \in {"stage_2", "stage_3"}
    THEN {run.input[k] : k \in DOMAIN run.input}
    ELSE {run.input[k].question_id : k \in DOMAIN run.input}
OutIds ==
    IF run.pc = "stage_2"
    THEN {run.out[k] : k \in DOMAIN run.out}
    ELSE {run.out[k].question_id : k \in DOMAIN run.out}

\* The error log has an entry for item id in stage st.
Logged(id, st) ==
    \E k \in DOMAIN progress.errors :
        progress.errors[k].question_id = id /\ progress.errors[k].stage = st

\* The worker of the item at position p returned an error result.
ReturnedError(p) ==
    /\ Done(p)
    /\ tasks[p].result.kind = "return"
    /\ tasks[p].result.val.status = "error"

StageNumber(stagePc) ==
    CASE stagePc = "stage_1" -> 1 [] stagePc = "stage_2" -> 2
      [] stagePc = "stage_3" -> 3 [] stagePc = "stage_4" -> 4
      [] stagePc = "stage_5" -> 5 [] OTHER -> 6

StageOfClass(c) ==
    CASE c = "research" -> 2 [] c = "generation" -> 3 [] c = "review" -> 4
      [] OTHER -> 5

\* C14: in a batched stage, once the group of an item whose worker returned
\* an error result is joined, the error log has an entry with the item's id
\* and the stage name and the item is not in the stage's output list; the
\* stage goes on: when its loop is over every item of the list has had its
\* worker run, and no later stage takes an item that has such an entry.
C14_ErrorResultLoggedAndExcluded ==
    /\ AtLoopHead =>
          \A p \in DOMAIN tasks :
              (p <= run.i /\ ReturnedError(p)) =>
                  /\ Logged(tasks[p].result.val.question_id, ClassOf(run.pc))
                  /\ tasks[p].result.val.question_id \notin OutIds
    /\ StageOver => \A p \in DOMAIN tasks : Done(p) /\ tasks[p].starts = 1
    /\ run.pc \in {"stage_3", "stage_4", "stage_5"} =>
          \A k \in DOMAIN progress.errors :
              StageOfClass(progress.errors[k].stage) < StageNumber(run.pc)
                  => progress.errors[k].question_id \notin InputIds

\* Research fails for Q2 of [Q1, Q2]: researched = 1, one research error for
\* Q2, and stage 5 is reached over Q1 only.
C14_Witness ==
    /\ run.pc = "stage_5" /\ run.n = 2
    /\ progress.stages["researched"] = 1
    /\ Logged(2, "research") /\ ~Logged(1, "research")
    /\ InputIds = {1}

\* Question q (by its position in the input, which is the id stage 1 gives
\* it) was counted as approved / has an entry in the error log / was
\* reviewed successfully with a verdict the approval filter drops.
Approved(q) == \E k \in DOMAIN run.results : run.results[k].question_id = q
InErrorLog(q) == \E k \in DOMAIN progress.errors : progress.errors[k].question_id = q
FilteredByReview(q) ==
    /\ "stage_4" \in run.entered
    /\ \E p \in DOMAIN tasks :
          /\ tasks[p].result.kind = "return"
          /\ tasks[p].result.val.status = "success"
          /\ tasks[p].result.val.question_id = q
          /\ ~should_store(tasks[p].result.val.review_status, run.auto_approve)

\* C16: at the end of every run, each input question that was not counted as
\* approved has an entry in the error log or was reviewed with a verdict the
\* approval filter drops.
C16_NoSilentDataLoss ==
    run.pc = "done" =>
        \A q \in 1..run.n : ~Approved(q) => (InErrorLog(q) \/ FilteredByReview(q))

\* C17: every result generate_synthetic_data returns has a status, a progress
\* summary with the counters and the completion percentage, and an errors
\* list holding the entries of the error log.
C17_ResultAlwaysStructured ==
    run.pc = "done" =>
        /\ {"status", "progress", "errors"} \subseteq DOMAIN run.result
        /\ {"stages", "completion_percentage"} \subseteq DOMAIN run.result.progress
        /\ run.result.errors = progress.errors

LaterStages == {"stage_3", "stage_4", "stage_5"}

\* C18: stage 2 is started only after stage 1 stored some id, and stages 3
\* to 5 only after stage 2 researched some id; a run in which stage 1 yields
\* no id (an empty question list included), or stage 2 no researched id,
\* returns status error with no later stage started.
C18_AbortWithoutLaterStages ==
    /\ "stage_2" \in run.entered => progress.stages["questions_added"] > 0
    /\ run.entered \cap LaterStages # {} => progress.stages["researched"] > 0
    /\ run.pc = "done" =>
          /\ progress.stages["questions_added"] = 0
                => (run.result.status = "error" /\ run.entered = {"stage_1"})
          /\ ("stage_2" \in run.entered /\ progress.stages["researched"] = 0)
                => (run.result.status = "error"
                    /\ run.entered = {"stage_1", "stage_2"})

C18_Witness ==
    /\ run.pc = "done" /\ run.n >= 2
    /\ run.entered = {"stage_1", "stage_2"}
    /\ progress.stages["researched"] = 0
    /\ Len(progress.errors) = run.n

\* C19: a run whose stage 3 yields no generated item although stage 2
\* researched some is not aborted: stages 4 and 5 are entered and the result
\* carries the full summary with generated = 0.
C19_EmptyGenerationNotAborted ==
    (run.pc = "done" /\ "stage_3" \in run.entered /\ progress.stages["generated"] = 0)
        => /\ {"stage_4", "stage_5"} \subseteq run.entered
           /\ "summary" \in DOMAIN run.result
           /\ DOMAIN run.result.summary =
                 {"total_questions", "researched", "generated", "reviewed",
                  "approved", "rejected", "failed", "success_rate"}
           /\ run.result.summary.generated = 0
           /\ run.result.summary.researched >= 1

C19_Witness ==
    /\ run.pc = "done" /\ "stage_3" \in run.entered
    /\ progress.stages["researched"] = 2
    /\ progress.stages["generated"] = 0

\* The ids for which stage 5 has run its store step.
StoredIds == {run.stored[k] : k \in DOMAIN run.stored}

\* The review worker at position p succeeded with verdict v.
Verdict(p, v) ==
    /\ tasks[p].result.kind = "return"
    /\ tasks[p].result.val.status = "success"
    /\ tasks[p].result.val.review_status = v

\* C20: stage 5 runs its store step for a generated item only if the
\* item's review succeeded with verdict approved, or with needs_revision
\* while auto_approve is true, and when stage 5 is over it has run it for
\* every such item; never for an item with verdict rejected.
C20_ApprovalGating ==
    "stage_5" \in run.entered =>
        \A p \in DOMAIN tasks :
            LET id == tasks[p].result.val.question_id
                passes == \/ Verdict(p, "approved")
                          \/ (Verdict(p, "needs_revision") /\ run.auto_approve)
            IN  /\ id \in StoredIds => passes
                /\ (run.pc = "done" /\ passes) => id \in StoredIds
                /\ Verdict(p, "rejected") => id \notin StoredIds

C20_Witness ==
    /\ run.pc = "done" /\ "stage_5" \in run.entered /\ run.auto_approve
    /\ \E p, q \in DOMAIN tasks :
          /\ Verdict(p, "needs_revision")
          /\ tasks[p].result.val.question_id \in StoredIds
          /\ Verdict(q, "rejected")

\* The review worker at position p succeeded, and its result has been
\* through the result loop of stage 4.
ReviewSucceeded(p) ==
    tasks[p].result.kind = "return" /\ tasks[p].result.val.status = "success"
ReviewJoined(p) == IF run.pc = "stage_4" THEN p <= run.i ELSE TRUE

\* The approval filter dropped the item reviewed at position p.
DroppedByFilter(p) ==
    /\ ReviewSucceeded(p)
    /\ ~Verdict(p, "approved")
    /\ ~(Verdict(p, "needs_revision") /\ run.auto_approve)

\* C21: reviewed counts every item whose review worker succeeded, whatever
\* the verdict; an item the approval filter drops has no entry in the error
\* log and adds nothing to failed (failed is the length of the error log).
C21_ReviewedCountsEveryVerdict ==
    ("stage_4" \in run.entered /\ ~run.awaiting) =>
        /\ progress.stages["reviewed"] =
              Cardinality({p \in DOMAIN tasks : ReviewJoined(p) /\ ReviewSucceeded(p)})
        /\ progress.stages["failed"] = Len(progress.errors)
        /\ \A p \in DOMAIN tasks :
              (ReviewJoined(p) /\ DroppedByFilter(p))
                  => ~InErrorLog(tasks[p].result.val.question_id)

C21_Witness ==
    /\ run.pc = "done" /\ "stage_5" \in run.entered /\ ~run.auto_approve
    /\ \E p, q \in DOMAIN tasks :
          /\ Verdict(p, "needs_revision") /\ DroppedByFilter(p)
          /\ Verdict(q, "rejected") /\ DroppedByFilter(q)
    /\ progress.stages["reviewed"] = 2
    /\ progress.stages["failed"] = 0

\* The k-th store step of stage 5 returned success.
StoreSucceeded(k) ==
    /\ run.store_outcomes[k].kind = "return"
    /\ run.store_outcomes[k].val.status = "success"

\* C22: approved is the number of final stores that returned success; a
\* retained item whose store returns an error, raises, or is rejected by the
\* open database breaker has a storage entry in the error log and is not
\* counted as approved.
C22_ApprovedOnlyOnSuccessfulStore ==
    run.pc \in {"stage_5", "done"} =>
        /\ progress.stages["approved"] =
              Cardinality({k \in DOMAIN run.store_outcomes : StoreSucceeded(k)})
        /\ \A k \in DOMAIN run.store_outcomes :
              ~StoreSucceeded(k) =>
                  /\ Logged(run.stored[k], "storage")
                  /\ ~Approved(run.stored[k])

C22_Witness ==
    /\ run.pc = "done" /\ Len(run.store_outcomes) = 3
    /\ StoreSucceeded(1)
    /\ run.store_outcomes[2] = Raised("TimeoutError")
    /\ run.store_outcomes[3] = Raised(CircuitBreakerOpenError)
    /\ progress.stages["approved"] = 1

\* The run went through stage 5 and returned the final result.
ReachedFinalStatus == run.pc = "done" /\ "stage_5" \in run.entered

\* C23: a run that reaches the final status derivation returns success iff
\* approved = total_questions, partial iff 0 < approved < total_questions,
\* and error iff approved = 0.
C23_FinalStatusDerivation ==
    ReachedFinalStatus =>
        LET approved == progress.stages["approved"]
            total == run.n
        IN  /\ run.result.status = "success" <=> approved = total
            /\ run.result.status = "partial" <=> (0 < approved /\ approved < total)
            /\ run.result.status = "error" <=> approved = 0

C23_Witness ==
    /\ ReachedFinalStatus /\ run.n = 3
    /\ progress.stages["approved"] = 2
    /\ run.result.status = "partial"

\* C24: during a run no PipelineProgress counter ever decreases, and at the
\* end of the run approved <= total_questions.
C24_CountersNeverDecrease ==
    /\ [][\A s \in StageCounters : progress'.stages[s] >= progress.stages[s]]_vars
    /\ [](run.pc = "done" => progress.stages["approved"] <= progress.total)

C24_Witness ==
    /\ run.pc = "done"
    /\ progress.total = 3
    /\ progress.stages["questions_added"] = 3
    /\ progress.stages["approved"] = 1
    /\ progress.stages["failed"] = 2

\* C25: in every state of a run approved + failed <= total_questions; no
\* item has two entries in the error log, and none has an entry and is
\* counted as approved.
C25_ApprovedPlusFailedBounded ==
    run.pc # "unused" =>
        /\ progress.stages["approved"] + progress.stages["failed"] <= progress.total
        /\ \A j, k \in DOMAIN progress.errors :
              progress.errors[j].question_id = progress.errors[k].question_id => j = k
        /\ \A q \in 1..run.n : ~(Approved(q) /\ InErrorLog(q))

C25_Witness ==
    /\ run.pc = "done" /\ progress.total = 3
    /\ progress.stages["approved"] = 2
    /\ progress.stages["failed"] = 1
    /\ \E q \in 1..run.n : InErrorLog(q) /\ ~Approved(q)

SucceededIds ==
    {tasks[p].result.val.question_id :
        p \in {q \in DOMAIN tasks : tasks[q].result.kind = "return"
                                      /\ tasks[q].result.val.status = "success"}}

\* C27: the run moves from a stage only to the next one in the order 1, 2,
\* 3, 4, 5 (or returns); it leaves a batched stage only when the worker of
\* every item of that stage has finished, so no worker of stage k+1 starts
\* before; and the list a stage is entered with holds only items that
\* succeeded in the stage before.
C27_StagesInOrderOnSucceededItems ==
    [][run.pc # run'.pc =>
         /\ run'.pc # "done" => StageNumber(run'.pc) = StageNumber(run.pc) + 1
         /\ run.pc \in BatchedStages => \A p \in DOMAIN tasks : Done(p)
         /\ run'.pc = "stage_2" =>
               Len(run'.input) = progress'.stages["questions_added"]
         /\ run'.pc = "stage_3" =>
               {run'.input[k] : k \in DOMAIN run'.input} \subseteq SucceededIds
         /\ run'.pc \in {"stage_4", "stage_5"} =>
               {run'.input[k].question_id : k \in DOMAIN run'.input}
                   \subseteq SucceededIds
         /\ run'.pc \in BatchedStages => \A p \in DOMAIN tasks' : tasks'[p] = NoTask]_vars

C27_Witness ==
    /\ run.pc = "stage_5" /\ run.n = 3
    /\ run.entered = {"stage_1", "stage_2", "stage_3", "stage_4", "stage_5"}
    /\ progress.stages["researched"] = 2
    /\ Len(run.input) = 1

\* The calls through the class's breaker have failed failure_threshold times
\* since the count was last reset.
Tripped == cb.failure_count >= cb.failure_threshold

\* Less than recovery_timeout has passed since the last failure.
CoolingDown == (now - cb.last_failure_time) < cb.recovery_timeout

\* Worker w makes a call through the breaker in this step.
Attempts(w) ==
    /\ worker[w].rt.pc \in {"loop", "sleep"}
    /\ ~worker[w].awaiting
    /\ worker'[w] # worker[w]

\* C28: all workers of a collaborator class, of whatever group or run of the
\* process, go through the one breaker of the class; once the calls through it
\* have failed failure_threshold times the breaker is OPEN, and until
\* recovery_timeout has elapsed every call a worker makes is rejected with
\* CircuitBreakerOpenError, the collaborator is not invoked, and the worker
\* returns the "Circuit breaker open" error result.
C28_SharedBreakerFailsFast ==
    [][(Tripped /\ CoolingDown) =>
         /\ cb.state = OPEN /\ cb'.state = OPEN
         /\ \A w \in Workers :
              Attempts(w) =>
                 /\ ~worker'[w].awaiting
                 /\ worker'[w].funcOut = NoOutcome
                 /\ worker'[w].caught = CircuitBreakerOpenError
                 /\ worker'[w].rt.pc = "returned"
                 /\ worker'[w].rt.out =
                       Returned(ErrorResult(worker[w].item, "Circuit breaker open"))]_vars

\* The breaker was tripped by the failures of both workers' earlier items and
\* has rejected the calls for the items started afterwards.
C28_Witness ==
    /\ Tripped /\ CoolingDown /\ cb.state = OPEN
    /\ cb.failure_count = GlobalFailureThreshold
    /\ \A w \in Workers :
         /\ worker[w].rt.pc = "returned"
         /\ worker[w].caught = CircuitBreakerOpenError
         /\ worker[w].funcOut = NoOutcome

\* Every stage succeeded for every question of the run: all of them reached
\* review, every review returned approved, and every store call succeeded.
AllSucceededAndApproved ==
    /\ ReachedFinalStatus
    /\ run.n >= 1
    /\ Len(tasks) = run.n
    /\ \A q \in DOMAIN tasks : Verdict(q, "approved")
    /\ Len(run.store_outcomes) = run.n
    /\ \A k \in DOMAIN run.store_outcomes : StoreSucceeded(k)

\* C29: when every stage succeeds for each of the N >= 1 questions and every
\* review returns approved, the run returns status success with
\* summary.approved = N, summary.failed = 0, an empty error log and
\* success_rate = 100.
C29_AllApprovedIsSuccess ==
    AllSucceededAndApproved =>
        /\ run.result.status = "success"
        /\ run.result.summary.approved = run.n
        /\ run.result.summary.failed = 0
        /\ run.result.errors = <<>>
        /\ run.result.summary.success_rate = 100

C29_Witness ==
    /\ AllSucceededAndApproved
    /\ run.n = 3
    /\ run.result.summary.approved = 3
    /\ run.result.summary.success_rate = 100

\* The ids of the stored questions in pipeline stage pending that match the
\* topic filter of the call.
PendingIds ==
    {pend.rows[k].id :
        k \in {j \in DOMAIN pend.rows :
                  /\ pend.rows[j].pipeline_stage = "pending"
                  /\ (pend.topic = None \/ pend.rows[j].topic = pend.topic)}}

\* The ids of the items the query returned to process_pending_questions.
ReturnedIds ==
    {pend.pending_questions[k].id : k \in DOMAIN pend.pending_questions}

Delegated == pend.pc \in {"delegated", "done"} /\ PendingIds # {}

Resumed ==
    /\ pend.entry = "resume_failed_questions"
    /\ pend.pc \in {"delegated", "done"}
    /\ PendingIds # {}

LookupFailed == run.empty_ground_truth

\* C32: when the ground-truth lookup of a generated item fails in stage 4,
\* the run does not abort: the workers of all items of the group and of the
\* later groups, the item's own included, are run once, the run goes on to
\* stage 5 and ends with the final summary.
C32_LookupFailureConfined ==
    LookupFailed =>
        /\ run.pc \in {"stage_4", "stage_5", "done"}
        /\ run.pc \in {"stage_5", "done"} =>
              /\ "stage_5" \in run.entered
              /\ \A q \in DOMAIN tasks : tasks[q].state = "done" /\ tasks[q].starts = 1
        /\ run.pc = "done" => "summary" \in DOMAIN run.result

C32_Witness ==
    /\ LookupFailed
    /\ run.pc = "done" /\ run.n = 3 /\ run.batch_size = 2
    /\ Len(tasks) = 3
    /\ \A q \in DOMAIN tasks : Verdict(q, "approved")
    /\ run.result.summary.reviewed = 3

\* C33: in stage 5 every call of add_synthetic_data made for an item goes
\* through the database breaker, so that the breaker, while CLOSED, counts
\* one failure for each attempt that raised.
C33_EveryStoreAttemptConsultsBreaker ==
    [][(run.pc = "stage_5" /\ run'.pc = "stage_5" /\ run'.i = run.i + 1
        /\ cbs["database"].state = CLOSED) =>
          LET h == run'.store_attempts[Len(run'.store_attempts)]
          IN  /\ h.admitted
              /\ cbs'["database"].failure_count =
                    cbs["database"].failure_count + h.failed]_vars

\* C34: when an integer max_questions = m >= 0 is supplied with N questions,
\* the run processes the first min(m, N) of them, and total_questions, in
\* the progress and in the final summary, is min(m, N).
C34_MaxQuestionsLimits ==
    "int" \in DOMAIN run.max_questions =>
        LET processed == Min(run.max_questions.int, Len(run.given))
        IN  /\ run.questions = SubSeq(run.given, 1, processed)
            /\ run.n = processed
            /\ progress.total = processed
            /\ (run.pc = "done" /\ "summary" \in DOMAIN run.result)
                  => run.result.summary.total_questions = processed

\* The step, if it is one of a caller, is the rejection of caller c's call.
RejectionOf(c) ==
    /\ ~Running(c)
    /\ outcome'[c] = Raised(CircuitBreakerOpenError)
    /\ pc'[c] = "raised"
    /\ \A d \in Callers \ {c} : pc'[d] = pc[d]
    /\ now' = now

\* C35: the breaker's attributes change only in a step of a call (never
\* when only time passes), and the rejection of a call while OPEN leaves
\* state, failure_count and last_failure_time as they were.
C35_RejectionLeavesBreakerUnchanged ==
    [][/\ cb' # cb => (now' = now /\ \E c \in Callers : pc'[c] # pc[c])
       /\ \A c \in Callers : RejectionOf(c) => cb' = cb]_vars

\* A caller has been rejected by the OPEN breaker, part of the cooldown has
\* passed since the last failure and part of it is left.
C35_Witness ==
    /\ cb.state = OPEN
    /\ \E c \in Callers :
         pc[c] = "raised" /\ outcome[c] = Raised(CircuitBreakerOpenError)
    /\ now - cb.last_failure_time > 0
    /\ now - cb.last_failure_time < cb.recovery_timeout

\* C36: for every question list and batch_size >= 1, when every awaited
\* collaborator call eventually returns or raises, the run eventually
\* returns a result.
C36_RunEventuallyReturns == <>(run.pc = "done" /\ "status" \in DOMAIN run.result)

\* A run over two questions in groups of one has returned after storing
\* at least one item.
C36_Witness ==
    /\ run.pc = "done" /\ run.n = 2 /\ run.batch_size = 1
    /\ "stage_5" \in run.entered
    /\ Len(run.store_outcomes) >= 1
    /\ "status" \in DOMAIN run.result

\* C37: for failure_threshold >= 1 and any interleaving of callers on one
\* breaker, in every state the breaker is OPEN if and only if
\* failure_count >= failure_threshold.
C37_OpenIffThresholdReached ==
    cb.failure_threshold >= 1 =>
        (cb.state = OPEN <=> cb.failure_count >= cb.failure_threshold)

\* Two callers were in flight together: the breaker is OPEN and a failure
\* counted after it opened has taken failure_count past the threshold.
C37_Witness ==
    /\ cb.failure_threshold >= 1
    /\ cb.state = OPEN
    /\ cb.failure_count > cb.failure_threshold

\* The steps of the tracker: add_error appends one entry and adds one to
\* failed; update adds count to the named counter only, and nothing for a
\* name that is not a counter.
ProgressSteps ==
    [][/\ Len(progress'.errors) \in {Len(progress.errors), Len(progress.errors) + 1}
       /\ Len(progress'.errors) = Len(progress.errors) + 1 =>
            /\ SubSeq(progress'.errors, 1, Len(progress.errors)) = progress.errors
            /\ progress'.stages =
                  [progress.stages EXCEPT !["failed"] = @ + 1]
       /\ Len(progress'.errors) = Len(progress.errors) =>
            /\ progress'.errors = progress.errors
            /\ \/ progress'.stages = progress.stages
               \/ \E st \in StageCounters, count \in 1..MaxCount :
                    progress'.stages = [progress.stages EXCEPT ![st] = @ + count]
       /\ progress'.total = progress.total]_vars

\* The failed counter is the length of the error log plus the counts passed
\* to update("failed", count) directly, and get_summary reports the length
\* of the error log.
FailedIsErrorLogPlusDirectUpdates ==
    /\ progress.stages["failed"] = Len(progress.errors) + run.direct_failed
    /\ get_summary(progress).errors = Len(progress.errors)
    /\ run.direct_failed = 0 =>
         get_summary(progress).errors = progress.stages["failed"]

\* C38: after any sequence of add_error calls and of update calls on stages
\* other than failed, the failed counter equals the length of the error log
\* and the errors value of get_summary; each add_error appends exactly one
\* entry and adds exactly one to failed, update on a known stage adds count
\* to that counter only (to failed too, which then exceeds the error log by
\* count), and update on an unknown stage name changes nothing.
C38_FailedIsErrorLogPlusDirectUpdates ==
    []FailedIsErrorLogPlusDirectUpdates /\ ProgressSteps

\* Two add_error calls and an update of another counter or of an unknown
\* stage name, none of failed itself.
C38_Witness ==
    /\ run.pc = "tracker" /\ run.calls = 3 /\ run.direct_failed = 0
    /\ Len(progress.errors) = 2
    /\ progress.stages["failed"] = 2

\* C38 as stated: after any sequence of update and add_error calls, the
\* failed counter equals the length of the error log and the errors value
\* of get_summary.
C38_FailedEqualsErrorLog ==
    /\ progress.stages["failed"] = Len(progress.errors)
    /\ get_summary(progress).errors = progress.stages["failed"]

\* C39: in every reachable state of a run of generate_synthetic_data,
\* approved <= reviewed <= generated <= researched <= questions_added
\* <= total_questions.
C39_CountersAreOrdered ==
    run.pc # "unused" =>
        /\ progress.stages["approved"] <= progress.stages["reviewed"]
        /\ progress.stages["reviewed"] <= progress.stages["generated"]
        /\ progress.stages["generated"] <= progress.stages["researched"]
        /\ progress.stages["researched"] <= progress.stages["questions_added"]
        /\ progress.stages["questions_added"] <= progress.total

\* A finished run over three questions that lost one item in research and
\* stored fewer items than it reviewed.
C39_Witness ==
    /\ run.pc = "done" /\ run.n = 3
    /\ progress.stages["questions_added"] = 3
    /\ progress.stages["researched"] = 2
    /\ progress.stages["reviewed"] = 2
    /\ progress.stages["approved"] = 1

\* process_pending_questions has returned the result of a run in which
\* every stage succeeded for every item it pulled.
EveryStageSucceeded ==
    /\ pend.pc = "done" /\ pend.entry = "process_pending_questions"
    /\ pend.pending_questions # <<>>
    /\ run.pc = "done"
    /\ pend.result.status = "success"
    /\ progress.errors = <<>>
    /\ progress.stages["approved"] = Len(pend.pending_questions)

PulledIds == {pend.pending_questions[k].id : k \in DOMAIN pend.pending_questions}

\* C40: after a run in which every stage succeeds for every item, the items
\* that the pending query returned are no longer in pipeline stage pending,
\* and a second call with the same filters does not get them again.
C40_PulledItemsLeavePending ==
    EveryStageSucceeded =>
        /\ \A id \in PulledIds : pend.table[id].pipeline_stage # "pending"
        /\ \A again \in get_questions_by_stage(pend.table, "pending", pend.topic,
                                                pend.limit, FALSE) :
              \A k \in DOMAIN again : again[k].id \notin PulledIds
====
